---------------------------- MODULE Spec2Model ----------------------------
(***************************************************************************)
(* The chat endpoints of Waterfront-Terrace: the streaming relays          *)
(* (functions/chat.js and its variants) and the non-streaming endpoints    *)
(* (functions/chat2.js, functions/chat3.js and their variants).            *)
(*                                                                         *)
(* Text is a sequence of one-character strings.  The upstream body is a    *)
(* sequence of bytes; every character of the model is one byte on the wire *)
(* except U+00E9, which is the two bytes 0xC3 0xA9.  A JSON payload is     *)
(* written with one wire unit per JSON token, the framing of a record      *)
(* ("data:", blanks, the newline) with one unit per character.             *)
(***************************************************************************)
EXTENDS Integers, Sequences, FiniteSets, TLC

(***************************************************************************)
(* Bounds of the model.                                                    *)
(***************************************************************************)
\* the upstream body holds at most this many records
MaxRecords == 2
\* a chunk handed over by reader.read() holds 1..MaxChunk bytes, or all the rest
MaxChunk == 3
\* the items and separators after the keyword in an answer text are at most
MaxItems == 2

(***************************************************************************)
(* JavaScript strings.                                                     *)
(***************************************************************************)
NL == "\n"
SP == " "

Min(a, b) == IF a < b THEN a ELSE b

\* the white space String.prototype.trim removes
IsWs(c) == c \in {SP, NL, "\t"}

\* the places of s that hold something else than white space
TextPlaces(s) == SelectSeq([i \in 1..Len(s) |-> i], LAMBDA i : ~IsWs(s[i]))

TrimStart(s) ==
  LET at == TextPlaces(s) IN IF at = <<>> THEN <<>> ELSE SubSeq(s, at[1], Len(s))

TrimEnd(s) ==
  LET at == TextPlaces(s) IN IF at = <<>> THEN <<>> ELSE SubSeq(s, 1, at[Len(at)])

Trim(s) == TrimEnd(TrimStart(s))

StartsWith(s, p) == Len(s) >= Len(p) /\ SubSeq(s, 1, Len(p)) = p

\* s.slice(n)
Slice(s, n) == SubSeq(s, n + 1, Len(s))

\* s.slice(0, n)
SliceTo(s, n) == SubSeq(s, 1, Min(n, Len(s)))

\* s.split("\n"): at least one piece, the last one is what follows the last newline
SplitLines(s) ==
  LET at == SelectSeq([i \in 1..Len(s) |-> i], LAMBDA i : s[i] = NL)
      from(k) == IF k = 1 THEN 1 ELSE at[k - 1] + 1
      to(k) == IF k = Len(at) + 1 THEN Len(s) ELSE at[k] - 1
  IN [k \in 1..(Len(at) + 1) |-> SubSeq(s, from(k), to(k))]

\* s.lastIndexOf("."), 0-based, -1 when there is none
RECURSIVE LastIndexOfDot(_, _)
LastIndexOfDot(s, i) ==
  IF i = 0 THEN -1
  ELSE IF s[i] = "." THEN i - 1
  ELSE LastIndexOfDot(s, i - 1)

RECURSIVE Concat(_)
Concat(ss) == IF ss = <<>> THEN <<>> ELSE Head(ss) \o Concat(Tail(ss))

(***************************************************************************)
(* JavaScript values: what JSON.parse returns and what the code probes.    *)
(***************************************************************************)
Undefined == [t |-> "undefined", v |-> <<>>]
Null == [t |-> "null", v |-> <<>>]
Str(s) == [t |-> "string", v |-> s]
Arr(xs) == [t |-> "array", v |-> xs]
\* a number, v the digits that toString() gives for it
Num(digits) == [t |-> "number", v |-> digits]

\* typeof x === "string"
IsString(x) == x.t = "string"

\* the truth value of x in a condition, for the values of the model
Truthy(x) ==
  \/ x.t \in {"array", "object"}
  \/ x.t = "string" /\ x.v # <<>>
  \/ x.t = "number" /\ x.v # <<"0">>

\* a || b
Or(a, b) == IF Truthy(a) THEN a ELSE b

\* an object with the fields the relays read; a field that is absent is Undefined
Obj(delta, output_text, results, type) ==
  [t |-> "object", delta |-> delta, output_text |-> output_text,
   results |-> results, type |-> type]

\* evt?.name
Field(evt, name) ==
  IF evt.t # "object" THEN Undefined
  ELSE CASE name = "delta" -> evt.delta
         [] name = "output_text" -> evt.output_text
         [] name = "results" -> evt.results
         [] name = "type" -> evt.type

\* {} and the file descriptor of a result entry
FileObj(id, filename) == [t |-> "object", id |-> id, filename |-> filename]
EmptyObj == FileObj(Undefined, Undefined)

\* one entry of evt.results
Result(file, file_id, filename, display_name, name) ==
  [file |-> file, file_id |-> file_id, filename |-> filename,
   display_name |-> display_name, name |-> name]

(***************************************************************************)
(* The texts of the model.                                                 *)
(***************************************************************************)
EAcute == "U+00E9"
Replacement == "U+FFFD"
Lead == "0xC3"
Cont == "0xA9"

T_f1 == <<"f", "1">>
T_f2 == <<"f", "2">>
T_a_pdf == <<"a", ".", "p", "d", "f">>
T_a_txt == <<"a", ".", "t", "x", "t">>
T_Sources == <<"S", "o", "u", "r", "c", "e", "s", ":">>
T_SOURCES == <<"S", "O", "U", "R", "C", "E", "S", ":">>
T_b_pdf == <<"b", ".", "p", "d", "f">>
T_See == <<"S", "e", "e">>
T_Thanks == <<"T", "h", "a", "n", "k", "s">>
T_hi == <<"h", "i">>
T_data == <<"d", "a", "t", "a", ":">>
T_DONE == <<"[", "DONE", "]">>
T_file_search == <<"file_search">>
T_file_search_call == T_file_search \o <<"_call">>

\* String(evt.type).includes("file_search")
IncludesFileSearch(s) ==
  \E i \in 1..(Len(s) - Len(T_file_search) + 1) :
    SubSeq(s, i, i + Len(T_file_search) - 1) = T_file_search

(***************************************************************************)
(* JSON.parse, on the payloads of the model: a text that is none of them   *)
(* is not JSON (a payload cut short, the text of a malformed record) and   *)
(* JSON.parse throws.                                                      *)
(***************************************************************************)
J_output == <<"{\"output_text\":", "\"\\nSources: a.pdf\"", "}">>
J_both == <<"{\"delta\":", "\"", EAcute, "\"", ",\"output_text\":", "\"b\"", "}">>
J_results ==
  <<"{\"results\":[", "{\"file_id\":\"f1\",\"filename\":\"a.pdf\"}", ",",
    "{\"file_id\":\"f1\"}", "]}">>
J_search ==
  <<"{\"type\":\"file_search_call\",", "\"results\":[",
    "{\"file\":{\"id\":\"f2\",\"filename\":\"a.txt\"}}", "]}">>
J_null == <<"null">>
J_bad == <<"{", "oops">>

\* payloads that are JSON and none of the shapes the relays look for
J_created == <<"{\"type\":", "\"response.created\"", "}">>
J_number == <<"5">>
J_string == <<"\"x\"">>
J_odd == <<"{\"type\":\"file_search_call\",", "\"results\":", "\"ab\"", "}">>
J_count == <<"{\"output_text\":", "5", "}">>

JsonTexts ==
  {J_output, J_both, J_results, J_search, J_null, J_created, J_number, J_string, J_odd,
   J_count}

JsonValue(text) ==
  CASE text = J_output ->
         Obj(Undefined, Str(<<NL>> \o T_Sources \o <<SP>> \o T_a_pdf), Undefined, Undefined)
    [] text = J_both -> Obj(Str(<<EAcute>>), Str(<<"b">>), Undefined, Undefined)
    [] text = J_results ->
         Obj(Undefined, Undefined,
             Arr(<<Result(Undefined, Str(T_f1), Str(T_a_pdf), Undefined, Undefined),
                   Result(Undefined, Str(T_f1), Undefined, Undefined, Undefined)>>),
             Undefined)
    [] text = J_search ->
         Obj(Undefined, Undefined,
             Arr(<<Result(FileObj(Str(T_f2), Str(T_a_txt)), Undefined, Undefined,
                          Undefined, Undefined)>>),
             Str(T_file_search_call))
    [] text = J_null -> Null
    [] text = J_created -> Obj(Undefined, Undefined, Undefined, Str(<<"response.created">>))
    [] text = J_number -> Num(<<"5">>)
    [] text = J_string -> Str(<<"x">>)
    [] text = J_odd ->
         Obj(Undefined, Undefined, Str(<<"a", "b">>), Str(T_file_search_call))
    [] text = J_count -> Obj(Undefined, Num(<<"5">>), Undefined, Undefined)

ParseJSON(data) ==
  IF data \in JsonTexts THEN [ok |-> TRUE, value |-> JsonValue(data)]
  ELSE [ok |-> FALSE, value |-> Undefined]

(***************************************************************************)
(* The upstream body: records of a server-sent event stream, as bytes.     *)
(***************************************************************************)
\* TextEncoder.encode
RECURSIVE Encode(_)
Encode(s) ==
  IF s = <<>> THEN <<>>
  ELSE (IF Head(s) = EAcute THEN <<Lead, Cont>> ELSE <<Head(s)>>) \o Encode(Tail(s))

RecordTexts ==
  << T_data \o J_output \o <<NL>>,
     <<SP>> \o T_data \o <<SP>> \o J_both \o <<SP, NL>>,
     T_data \o <<SP>> \o J_results \o <<NL>>,
     T_data \o <<SP>> \o J_search \o <<NL>>,
     T_data \o <<SP>> \o T_DONE \o <<NL>>,
     T_data \o <<SP>> \o J_bad \o <<NL>>,
     <<NL>>,
     T_data \o <<SP>> \o J_null \o <<NL>> >>

RecordIds == 1..Len(RecordTexts)

\* records whose payload is JSON of a shape the relays do not look for
ShapeTexts ==
  << T_data \o <<SP>> \o J_created \o <<NL>>,
     T_data \o J_number \o <<NL>>,
     T_data \o <<SP>> \o J_string \o <<NL>>,
     T_data \o <<SP>> \o J_odd \o <<NL>>,
     T_data \o <<SP>> \o J_count \o <<NL>> >>

\* a text record, a file search record, the null record and the records of
\* ShapeTexts
ShapeIds == {1, 4, 8} \cup ((Len(RecordTexts) + 1)..(Len(RecordTexts) + Len(ShapeTexts)))

RECURSIVE BodyOf(_)
BodyOf(rs) ==
  IF rs = <<>> THEN <<>>
  ELSE Encode((RecordTexts \o ShapeTexts)[Head(rs)]) \o BodyOf(Tail(rs))

\* the record sequences an upstream response may carry
RecordSeqs == UNION {[1..n -> RecordIds] : n \in 0..MaxRecords}

\* record sequences that mix text with shapes the relays do not look for
ShapeSeqs == UNION {[1..n -> ShapeIds] : n \in 0..MaxRecords}

(***************************************************************************)
(* The streaming relays.  A variant is named by the file that holds it.    *)
(***************************************************************************)
ChatJs == "functions/chat.js"
Part004 == "unnamed/part_004"
Part002 == "unnamed/part_002"
PromptJs == "system_prompt.md"
Part001 == "unnamed/part_001"
Part005 == "unnamed/part_005"

\* the relays that collect file identifiers from the frames
MetadataVariants == {ChatJs, Part004, Part002}
\* the relays that look file names up after the stream
LookupVariants == {Part004, Part002}
\* the relays that keep the answer in `full` and end with a done frame
AccumulatingVariants == {ChatJs, Part004, Part002, PromptJs}
StreamingVariants == AccumulatingVariants \cup {Part001, Part005}

\* a downstream frame: data: {"output_text": text}, data: {"done": true, "final":
\* text, "sources": sources}, data: [DONE], or (part_005) data: text as received
Frame(k, text, sources) == [k |-> k, text |-> text, sources |-> sources]
TextFrame(text) == Frame("output_text", text, <<>>)
DoneFrame(final, sources) == Frame("done", final, sources)
Sentinel == Frame("sentinel", T_DONE, <<>>)
RawFrame(data) == Frame("raw", data, <<>>)

\* an array pushed to in place of a Map: a key set twice is listed twice
MapPush(m, k, val) == Append(m, [k |-> k, v |-> val])

\* a Map, in insertion order: Map.prototype.set keeps the place of a key it has
RECURSIVE MapSet(_, _, _)
MapSet(m, k, val) ==
  IF m = <<>> THEN <<[k |-> k, v |-> val]>>
  ELSE IF Head(m).k = k THEN <<[k |-> k, v |-> val]>> \o Tail(m)
  ELSE <<Head(m)>> \o MapSet(Tail(m), k, val)

MapHas(m, k) == \E i \in 1..Len(m) : m[i].k = k
MapGet(m, k) == IF MapHas(m, k) THEN (CHOOSE e \in {m[i] : i \in 1..Len(m)} : e.k = k).v ELSE <<>>
\* Array.from(map.values())
MapValues(m) == [i \in 1..Len(m) |-> m[i].v]

\* a Set, in insertion order
SetAdd(xs, x) == IF \E i \in 1..Len(xs) : xs[i] = x THEN xs ELSE Append(xs, x)

\* [...new Set(xs)]
RECURSIVE Dedup(_)
Dedup(xs) ==
  IF xs = <<>> THEN <<>>
  ELSE LET front == Dedup(SubSeq(xs, 1, Len(xs) - 1))
       IN SetAdd(front, xs[Len(xs)])

\* what one request's relay has built up
RelayInit ==
  [full |-> <<>>, out |-> <<>>, foundFiles |-> <<>>, fileIds |-> <<>>, nameHints |-> <<>>]

\* const f = r.file || {}; const id = f.id || r.file_id;
FileOf(r) == IF r.file.t = "object" THEN r.file ELSE EmptyObj
IdOf(r) == Or(FileOf(r).id, r.file_id)

\* chat.js: const name = f.filename || r.filename || id; foundFiles.set(id, name);
RECURSIVE CollectFound(_, _)
CollectFound(m, results) ==
  IF results = <<>> THEN m
  ELSE LET r == Head(results)
           id == IdOf(r)
           name == Or(Or(FileOf(r).filename, r.filename), id)
       IN CollectFound(IF Truthy(id) THEN MapSet(m, id.v, name.v) ELSE m, Tail(results))

\* part_004, part_002: fileIds.add(id)
RECURSIVE CollectIds(_, _)
CollectIds(ids, results) ==
  IF results = <<>> THEN ids
  ELSE LET id == IdOf(Head(results))
       IN CollectIds(IF Truthy(id) THEN SetAdd(ids, id.v) ELSE ids, Tail(results))

\* part_004, part_002: const hint = f.filename || r.filename || r.display_name ||
\* r.name; if (hint) nameHints.set(id, hint);
RECURSIVE CollectHints(_, _)
CollectHints(m, results) ==
  IF results = <<>> THEN m
  ELSE LET r == Head(results)
           id == IdOf(r)
           hint == Or(Or(Or(FileOf(r).filename, r.filename), r.display_name), r.name)
       IN CollectHints(IF Truthy(id) /\ Truthy(hint) THEN MapSet(m, id.v, hint.v) ELSE m,
                       Tail(results))

\* the text increment of a frame: a string delta, or else a string output_text
HasText(evt) == IsString(Field(evt, "delta")) \/ IsString(Field(evt, "output_text"))
TextOf(evt) ==
  IF IsString(Field(evt, "delta")) THEN Field(evt, "delta").v
  ELSE Field(evt, "output_text").v

\* a frame sent for every event, with the empty text when it has none
AccumulateAlways(rs, evt) ==
  IF HasText(evt)
  THEN [rs EXCEPT !.full = @ \o TextOf(evt), !.out = Append(@, TextFrame(TextOf(evt)))]
  ELSE [rs EXCEPT !.out = Append(@, TextFrame(<<>>))]

\* if (...delta...) {...} if (...output_text...) {...}: the else forgotten
AccumulateBoth(rs, evt) ==
  LET d == Field(evt, "delta")
      o == Field(evt, "output_text")
      r1 == IF IsString(d)
            THEN [rs EXCEPT !.full = @ \o d.v, !.out = Append(@, TextFrame(d.v))]
            ELSE rs
  IN IF IsString(o)
     THEN [r1 EXCEPT !.full = @ \o o.v, !.out = Append(@, TextFrame(o.v))]
     ELSE r1

\* A) full += text; sendJSON({ output_text: text })
AccumulateText(rs, evt) ==
  IF HasText(evt)
  THEN [rs EXCEPT !.full = @ \o TextOf(evt), !.out = Append(@, TextFrame(TextOf(evt)))]
  ELSE rs

\* the entries the loops over evt.results visit: once for any frame with a results
\* array, once more when evt.type names file_search
ResultsOf(evt) ==
  LET results == Field(evt, "results")
      type == Field(evt, "type")
      any == IF Truthy(results) /\ results.t = "array" THEN results.v ELSE <<>>
      typed == IF Truthy(type) /\ IncludesFileSearch(type.v) /\ results.t = "array"
               THEN results.v ELSE <<>>
  IN any \o typed

\* a character of a string that for (const r of evt.results) runs over: r.file,
\* r.file_id and r.filename are undefined
NoEntry == Result(Undefined, Undefined, Undefined, Undefined, Undefined)

\* chat.js: the entries its two loops visit.  The second loop has no Array.isArray:
\* over a string it visits the characters, over a number or an object the for
\* throws and the inner catch ends the frame, nothing being left to do
ResultsOfChat(evt) ==
  LET results == Field(evt, "results")
      type == Field(evt, "type")
      any == IF Truthy(results) /\ results.t = "array" THEN results.v ELSE <<>>
      visited == CASE results.t = "array" -> results.v
                   [] results.t = "string" -> [i \in 1..Len(results.v) |-> NoEntry]
                   [] OTHER -> <<>>
      typed == IF Truthy(type) /\ IncludesFileSearch(type.v) /\ Truthy(results)
               THEN visited ELSE <<>>
  IN any \o typed

\* the body of try { const evt = JSON.parse(data); ... } for a payload that parses
OnEvent(variant, rs, evt, data) ==
  CASE variant = ChatJs ->
         [AccumulateText(rs, evt) EXCEPT !.foundFiles = CollectFound(@, ResultsOfChat(evt))]
    [] variant \in LookupVariants ->
         [AccumulateText(rs, evt) EXCEPT
            !.fileIds = CollectIds(@, ResultsOf(evt)),
            !.nameHints = CollectHints(@, ResultsOf(evt))]
    [] variant = PromptJs -> AccumulateText(rs, evt)
    [] variant = Part001 ->
         \* sendText(chunk): if (!chunk) return;
         IF HasText(evt) /\ TextOf(evt) # <<>>
         THEN [rs EXCEPT !.out = Append(@, TextFrame(TextOf(evt)))]
         ELSE rs
    [] variant = Part005 ->
         \* evt.output_text of null throws: the catch passes the payload through
         IF evt.t = "null" THEN [rs EXCEPT !.out = Append(@, RawFrame(data))]
         ELSE [rs EXCEPT !.out =
                 Append(@, TextFrame(Or(Field(evt, "output_text"), Str(<<>>)).v))]

\* a catch that forwards the payload as text, as the permissive relays do
ForwardBadJSON(variant, rs, data) == [rs EXCEPT !.out = Append(@, TextFrame(data))]

\* the catch of that try, for a payload that does not parse
OnBadJSON(variant, rs, data) ==
  CASE variant \in AccumulatingVariants -> rs
    [] variant = Part001 -> [rs EXCEPT !.out = Append(@, TextFrame(data))]
    [] variant = Part005 -> [rs EXCEPT !.out = Append(@, RawFrame(data))]

\* the body of for (let i = 0; i < lines.length - 1; i++)
\* the sentinel of the upstream passed on as it arrives
OnLineSentinelForwarded(variant, rs, rawLine) ==
  LET line == TrimStart(rawLine)
      data == Trim(Slice(line, 5))
      parsed == ParseJSON(data)
  IN IF ~StartsWith(line, T_data) THEN rs
     ELSE IF data = <<>> THEN rs
     ELSE IF data = T_DONE THEN [rs EXCEPT !.out = Append(@, Sentinel)]
     ELSE IF parsed.ok THEN OnEvent(variant, rs, parsed.value, data)
     ELSE OnBadJSON(variant, rs, data)

OnLine(variant, rs, rawLine) ==
  LET line == TrimStart(rawLine)
      data == Trim(Slice(line, 5))
      parsed == ParseJSON(data)
  IN IF ~StartsWith(line, T_data) THEN rs
     ELSE IF data = <<>> \/ data = T_DONE THEN rs
     ELSE IF parsed.ok THEN OnEvent(variant, rs, parsed.value, data)
     ELSE OnBadJSON(variant, rs, data)

RECURSIVE OnLines(_, _, _)
OnLines(variant, rs, lines) ==
  IF lines = <<>> THEN rs
  ELSE OnLines(variant, OnLine(variant, rs, Head(lines)), Tail(lines))

\* decoder.decode(value, { stream: true }): the characters of the bytes, an
\* incomplete character at the end of the chunk kept for the next call
Decode(held, bytes) ==
  LET all == held \o bytes
      n == Len(all)
      \* a lead byte with its continuation byte, with another byte, or with none yet
      paired(i) == all[i] = Lead /\ i < n /\ all[i + 1] = Cont
      waiting(i) == all[i] = Lead /\ i = n
      second(i) == all[i] = Cont /\ i > 1 /\ all[i - 1] = Lead
      char(i) ==
        IF paired(i) THEN EAcute
        ELSE IF all[i] \in {Lead, Cont} THEN Replacement
        ELSE all[i]
      at == SelectSeq([i \in 1..n |-> i], LAMBDA i : ~waiting(i) /\ ~second(i))
  IN [text |-> [k \in 1..Len(at) |-> char(at[k])],
      held |-> IF n > 0 /\ waiting(n) THEN <<Lead>> ELSE <<>>]

\* a read loop that splits each chunk on its own and carries nothing over
CarryNothing(lines) == <<>>

\* buffer = lines[lines.length - 1]
Carry(lines) == lines[Len(lines)]

\* a loop that runs to lines.length: the piece after the last newline is
\* handled as a line and carried over as well
CompleteAll(lines) == lines

\* the lines of this round: all the pieces but the last
Complete(lines) == SubSeq(lines, 1, Len(lines) - 1)

\* one round of the read loop on a chunk: the relay's state, the carried-over
\* buffer and the decoder's held bytes after it
\* the last piece handled as a line when the upstream ends
AtEndFlushed(variant, rs, buffer) == OnLine(variant, rs, buffer)

\* if (done) break: the loop is left without a look at the buffer, and nothing
\* after the loop reads it
AtEnd(variant, rs, buffer) == rs

OnChunk(variant, rs, buffer, held, value) ==
  LET dec == Decode(held, value)
      lines == SplitLines(buffer \o dec.text)
  IN [rs |-> OnLines(variant, rs, Complete(lines)),
      buffer |-> Carry(lines),
      held |-> dec.held]

\* what becomes of one line once the client has cancelled the response stream,
\* r being what the line does on a readable stream: controller.enqueue throws a
\* TypeError.  In the relays that accumulate the inner catch swallows it, after
\* full += text and before the results are looked at; in part_001 and part_005
\* the inner catch enqueues again and the error reaches the outer catch
EnqueueThrows(variant, rs, r) ==
  IF r.out = rs.out THEN [rs |-> r, thrown |-> FALSE]
  ELSE IF variant \in AccumulatingVariants
  THEN [rs |-> [rs EXCEPT !.full = r.full], thrown |-> FALSE]
  ELSE [rs |-> rs, thrown |-> TRUE]

\* the body of the for loop on a cancelled stream
OnLineCancelled(variant, rs, rawLine) ==
  EnqueueThrows(variant, rs, OnLine(variant, rs, rawLine))

RECURSIVE OnLinesCancelled(_, _, _)
\* the lines after one that has been handled: none when it threw
OnRestCancelled(variant, r, rest) ==
  IF r.thrown THEN r ELSE OnLinesCancelled(variant, r.rs, rest)

OnLinesCancelled(variant, rs, lines) ==
  IF lines = <<>> THEN [rs |-> rs, thrown |-> FALSE]
  ELSE OnRestCancelled(variant, OnLineCancelled(variant, rs, Head(lines)), Tail(lines))

\* the end of a round on a cancelled stream: buffer = lines[lines.length - 1] is
\* not reached when an enqueue has thrown
RoundCancelled(r, text, lines, held) ==
  [rs |-> r.rs,
   buffer |-> IF r.thrown THEN text ELSE Carry(lines),
   held |-> held,
   thrown |-> r.thrown]

\* the lines of a round on a cancelled stream
LinesCancelled(variant, rs, text, held) ==
  RoundCancelled(OnLinesCancelled(variant, rs, Complete(SplitLines(text))), text,
                 SplitLines(text), held)

\* one round of the read loop once the client has cancelled
OnChunkCancelled(variant, rs, buffer, held, value) ==
  LinesCancelled(variant, rs, buffer \o Decode(held, value).text,
                 Decode(held, value).held)

(***************************************************************************)
(* Display names and the text-driven source extractor.                     *)
(***************************************************************************)
Uppers ==
  <<"A", "B", "C", "D", "E", "F", "G", "H", "I", "J", "K", "L", "M",
    "N", "O", "P", "Q", "R", "S", "T", "U", "V", "W", "X", "Y", "Z">>
Lowers ==
  <<"a", "b", "c", "d", "e", "f", "g", "h", "i", "j", "k", "l", "m",
    "n", "o", "p", "q", "r", "s", "t", "u", "v", "w", "x", "y", "z">>
Digits == {"0", "1", "2", "3", "4", "5", "6", "7", "8", "9"}

\* one character of s.toLowerCase(), and of a match under the i flag
Lower(c) ==
  IF \E i \in 1..Len(Uppers) : Uppers[i] = c
  THEN Lowers[CHOOSE i \in 1..Len(Uppers) : Uppers[i] = c]
  ELSE c

ToLower(s) == [i \in 1..Len(s) |-> Lower(s[i])]

\* s.includes(sub)
Includes(s, sub) ==
  \E i \in 1..(Len(s) - Len(sub) + 1) : SubSeq(s, i, i + Len(sub) - 1) = sub

\* stripExt: the name without its final extension
stripExt(name) ==
  IF name = <<>> THEN name
  ELSE LET i == LastIndexOfDot(name, Len(name))
       IN IF i > 0 THEN SliceTo(name, i) ELSE name

\* .split(/[;,]/)
RECURSIVE SplitItems(_, _, _)
SplitItems(s, i, cur) ==
  IF i > Len(s) THEN <<cur>>
  ELSE IF s[i] \in {";", ","} THEN <<cur>> \o SplitItems(s, i + 1, <<>>)
  ELSE SplitItems(s, i + 1, Append(cur, s[i]))

\* .map((s) => s.trim()).filter(Boolean)
RECURSIVE TrimmedNonEmpty(_)
TrimmedNonEmpty(items) ==
  IF items = <<>> THEN <<>>
  ELSE LET t == Trim(Head(items))
       IN (IF t = <<>> THEN <<>> ELSE <<t>>) \o TrimmedNonEmpty(Tail(items))

AllWs(s, from, to) == \A i \in from..to : IsWs(s[i])
\* . matches any character but a line terminator
NoNewline(s, from, to) == \A i \in from..to : s[i] # NL

\* "Sources:" under the i flag, its first character at k
KeywordAt(s, k) ==
  /\ k + Len(T_Sources) - 1 <= Len(s)
  /\ \A i \in 1..Len(T_Sources) : Lower(s[k + i - 1]) = Lower(T_Sources[i])

\* the pattern without its (?:^|\n)\s* prefix: the keyword is taken anywhere
AtAnyPlace(s, k) == TRUE

\* (?:^|\n)\s* ends right before k
AtLineStart(s, k) ==
  \E p \in 0..(k - 1) : (p = 0 \/ s[p] = NL) /\ AllWs(s, p + 1, k - 1)

\* \s*(.+)\s*$ from e on: the group is s[i..j]
GroupPairs(s, e) ==
  {ij \in (e..Len(s)) \X (e..Len(s)) :
     /\ ij[1] <= ij[2]
     /\ AllWs(s, e, ij[1] - 1)
     /\ NoNewline(s, ij[1], ij[2])
     /\ AllWs(s, ij[2] + 1, Len(s))}

\* the places where /(?:^|\n)\s*Sources:\s*(.+)\s*$/i matches
MatchStarts(s) ==
  {k \in 1..Len(s) :
     KeywordAt(s, k) /\ AtLineStart(s, k) /\ GroupPairs(s, k + Len(T_Sources)) # {}}

\* m[1] of the leftmost match, both \s* and (.+) greedy
Group1(s) ==
  LET k == CHOOSE x \in MatchStarts(s) : \A y \in MatchStarts(s) : x <= y
      pairs == GroupPairs(s, k + Len(T_Sources))
      i == CHOOSE x \in {ij[1] : ij \in pairs} : \A ij \in pairs : ij[1] <= x
      j == CHOOSE x \in {ij[2] : ij \in {q \in pairs : q[1] = i}} :
             \A ij \in {q \in pairs : q[1] = i} : ij[2] <= x
  IN SubSeq(s, i, j)

\* extractSourcesFromAnswer (chat2.js, chat3.js), extractSources (system_prompt.md)
extractSourcesFromAnswer(answer) ==
  IF MatchStarts(answer) = {} THEN <<>>
  ELSE TrimmedNonEmpty(SplitItems(Group1(answer), 1, <<>>))

(***************************************************************************)
(* prettyTitle (part_002).                                                 *)
(***************************************************************************)
\* \w
IsWordChar(c) ==
  \/ c = "_"
  \/ c \in Digits
  \/ \E i \in 1..Len(Lowers) : Lowers[i] = c \/ Uppers[i] = c

\* .replace(/_/g, " ")
Unscore(s) == [i \in 1..Len(s) |-> IF s[i] = "_" THEN SP ELSE s[i]]

VersionTokens ==
  {<<"f", "i", "n", "a", "l">>,
   <<"o", "f", "f", "i", "c", "i", "a", "l">>,
   <<"a", "c", "c", "e", "p", "t", "e", "d">>,
   <<"a", "m", "e", "n", "d", "m", "e", "n", "t">>,
   <<"r", "e", "v">>,
   <<"v", "e", "r">>}

\* a whole word that /\b(final|official|accepted|amendment|rev|ver|v\d+)\b/i matches
IsVersionToken(w) ==
  \/ ToLower(w) \in VersionTokens
  \/ Len(w) >= 2 /\ Lower(w[1]) = "v" /\ \A i \in 2..Len(w) : w[i] \in Digits

\* .replace(/\b(final|...|v\d+)\b/ig, ""): the words of s that are such tokens, dropped
RECURSIVE DropTokens(_, _, _)
DropTokens(s, i, word) ==
  LET kept == IF IsVersionToken(word) THEN <<>> ELSE word
  IN IF i > Len(s) THEN kept
     ELSE IF IsWordChar(s[i]) THEN DropTokens(s, i + 1, Append(word, s[i]))
     ELSE kept \o <<s[i]>> \o DropTokens(s, i + 1, <<>>)

\* .replace(/\s{2,}/g, " ")
RECURSIVE Collapse(_, _, _)
Collapse(s, i, run) ==
  LET flushed == IF Len(run) >= 2 THEN <<SP>> ELSE run
  IN IF i > Len(s) THEN flushed
     ELSE IF IsWs(s[i]) THEN Collapse(s, i + 1, Append(run, s[i]))
     ELSE flushed \o <<s[i]>> \o Collapse(s, i + 1, <<>>)

Normalized(rawName) == Trim(Collapse(DropTokens(Unscore(rawName), 1, <<>>), 1, <<>>))

W_bylaw == <<"b", "y", "-", "l", "a", "w">>
W_bylaws == <<"b", "y", "l", "a", "w", "s">>
W_by_laws == <<"b", "y", "-", "l", "a", "w", "s">>
W_declaration == <<"d", "e", "c", "l", "a", "r", "a", "t", "i", "o", "n">>
W_condominium_act == <<"c", "o", "n", "d", "o", "m", "i", "n", "i", "u", "m", " ", "a", "c", "t">>
W_regulation == <<"r", "e", "g", "u", "l", "a", "t", "i", "o", "n">>

Title_ByLaws == <<"By-laws of Halifax County Condominium Corporation No. 227">>
Title_Declaration == <<"Declaration of Halifax County Condominium Corporation No. 227">>
Title_Act == <<"The Nova Scotia Condominium Act">>
Title_Regulations == <<"The Nova Scotia Condominium Regulations">>

prettyTitle(rawName) ==
  LET name == ToLower(rawName)
  IN IF Includes(name, W_bylaw) \/ Includes(name, W_bylaws) \/ Includes(name, W_by_laws)
     THEN Title_ByLaws
     ELSE IF Includes(name, W_declaration) THEN Title_Declaration
     ELSE IF Includes(name, W_condominium_act) THEN Title_Act
     ELSE IF Includes(name, W_regulation) THEN Title_Regulations
     ELSE stripExt(Normalized(rawName))

(***************************************************************************)
(* State.                                                                  *)
(***************************************************************************)
VARIABLES
  variant,     \* the file whose handler serves the request
  body,        \* upstream.body: the bytes the upstream sends, if it is not cut short
  pos,         \* how many of them reader.read() has handed over
  buffer,      \* let buffer: the text after the last newline seen
  held,        \* the decoder's bytes of a character not yet complete
  full,        \* let full: the answer so far
  out,         \* the frames enqueued on the downstream controller
  foundFiles,  \* chat.js: Map file_id -> filename
  fileIds,     \* part_004 fileIds, part_002 usedIds: Set of file ids
  nameHints,   \* part_004, part_002: Map file_id -> a name seen in a frame
  pc,          \* where start(controller) stands
  ctl,         \* the downstream stream: readable, closed, errored or cancelled
  todo,        \* the ids whose display name is still to be resolved
  names,       \* the display names resolved so far
  fileMap,     \* part_002: what preloadFileMap resolved
  lookups,     \* how each id was resolved: the outcome of its request, or preloaded
  preload,     \* part_002: fileMapPromise, pending or settled
  request,     \* the inbound request
  env,         \* the environment variables
  upstream,    \* the outcome of the completion call
  response,    \* what the handler returned
  calls,       \* the upstream calls issued for the request
  input,       \* payload.input of the completion call, once it is issued
  said,        \* what the handler's own error response says
  answer,      \* the answer text handed to the text-driven extractor
  sources,     \* what the extractor returned
  streams,     \* two requests at once: the upstream body and the controller of each
  cells        \* two requests at once: the variables the relays declare

relayVars ==
  <<body, pos, buffer, held, full, out, foundFiles, fileIds, nameHints, pc, ctl,
    todo, names, fileMap, lookups, preload>>
handlerVars == <<request, env, upstream, response, calls, input, said>>
extractVars == <<answer, sources>>
pairVars == <<streams, cells>>
vars == <<variant, relayVars, pairVars, handlerVars, extractVars>>

None == "none"
\* no completion call is issued, hence no payload
NoInput == [t |-> "none"]

\* the relay variables as the record the loop's operators work on
Relay ==
  [full |-> full, out |-> out, foundFiles |-> foundFiles, fileIds |-> fileIds,
   nameHints |-> nameHints]

HandlerIdle ==
  /\ request = None /\ env = None /\ upstream = None /\ response = None
  /\ calls = <<>> /\ input = NoInput /\ said = None
ExtractIdle == answer = <<>> /\ sources = None
PairIdle == streams = <<>> /\ cells = <<>>

\* no relay is running
RelayIdle ==
  /\ body = <<>> /\ pos = 0 /\ buffer = <<>> /\ held = <<>>
  /\ full = <<>> /\ out = <<>>
  /\ foundFiles = <<>> /\ fileIds = <<>> /\ nameHints = <<>>
  /\ pc = None /\ ctl = None
  /\ todo = <<>> /\ names = <<>> /\ fileMap = <<>> /\ lookups = <<>>
  /\ preload = None

RelayStart ==
  /\ pos = 0 /\ buffer = <<>> /\ held = <<>>
  /\ full = RelayInit.full /\ out = RelayInit.out
  /\ foundFiles = RelayInit.foundFiles /\ fileIds = RelayInit.fileIds
  /\ nameHints = RelayInit.nameHints
  /\ pc = "read" /\ ctl = "readable"
  /\ todo = <<>> /\ names = <<>> /\ fileMap = <<>> /\ lookups = <<>>
  \* const fileMapPromise = preloadFileMap(vectorStoreId), before the completion call
  /\ preload = IF variant = Part002 THEN "pending" ELSE None

(***************************************************************************)
(* The relay of one request, from new ReadableStream({ start }) on.        *)
(***************************************************************************)
Init ==
  /\ variant \in StreamingVariants
  /\ body \in {BodyOf(rs) : rs \in RecordSeqs}
  /\ RelayStart
  /\ HandlerIdle
  /\ ExtractIdle
  /\ PairIdle

\* the sizes reader.read() may give the next chunk
ChunkSizes(left) == {n \in 1..left : n <= MaxChunk \/ n = left}

\* what a round of the loop leaves in the variables of the relay
Round(r) ==
  /\ full' = r.rs.full
  /\ out' = r.rs.out
  /\ foundFiles' = r.rs.foundFiles
  /\ fileIds' = r.rs.fileIds
  /\ nameHints' = r.rs.nameHints
  /\ buffer' = r.buffer
  /\ held' = r.held
  \* catch (err) { controller.error(err); }: nothing to do on a cancelled stream
  /\ pc' = IF r.thrown THEN "end" ELSE pc

\* const { done, value } = await reader.read(), done false; one round of the loop
Read(n) ==
  /\ pc = "read"
  /\ n \in ChunkSizes(Len(body) - pos)
  /\ Round(IF ctl = "cancelled"
           THEN OnChunkCancelled(variant, Relay, buffer, held,
                                 SubSeq(body, pos + 1, pos + n))
           ELSE OnChunk(variant, Relay, buffer, held, SubSeq(body, pos + 1, pos + n))
                  @@ [thrown |-> FALSE])
  /\ pos' = pos + n
  /\ UNCHANGED <<variant, body, ctl, todo, names, fileMap, lookups>>
  /\ UNCHANGED <<preload, pairVars, handlerVars, extractVars>>

\* the final event left out, as in the relays that only forward text
SentinelOnly(final, srcs) == <<Sentinel>>

\* sendJSON({ done: true, final: full, sources }); enqueue("data: [DONE]\n\n");
\* controller.close()
FinalFrames(final, srcs) == <<DoneFrame(final, srcs), Sentinel>>

\* the source list of the variants that need no lookup
SourcesAtEnd(v, rs) ==
  IF v = ChatJs THEN MapValues(rs.foundFiles) ELSE extractSourcesFromAnswer(rs.full)

\* the steps after the loop, the relay standing at rs
AfterLoop(rs) ==
  /\ CASE ctl = "cancelled" /\ variant \notin LookupVariants ->
            \* the enqueue after the loop throws: catch (err) { controller.error(err); }
            /\ pc' = "end"
            /\ UNCHANGED <<out, ctl, todo>>
       [] variant \in {ChatJs, PromptJs} ->
            /\ out' = rs.out \o FinalFrames(rs.full, SourcesAtEnd(variant, rs))
            /\ ctl' = "closed"
            /\ pc' = "end"
            /\ todo' = todo
       [] variant = Part004 ->
            /\ pc' = "lookup"
            /\ todo' = rs.fileIds
            /\ out' = rs.out
            /\ UNCHANGED ctl
       [] variant = Part002 ->
            /\ pc' = "preload"
            /\ todo' = rs.fileIds
            /\ out' = rs.out
            /\ UNCHANGED ctl
       [] variant \in {Part001, Part005} ->
            \* controller.enqueue("data: [DONE]\n\n") and nothing more
            /\ out' = Append(rs.out, Sentinel)
            /\ pc' = "end"
            /\ UNCHANGED <<ctl, todo>>
  /\ full' = rs.full
  /\ foundFiles' = rs.foundFiles
  /\ fileIds' = rs.fileIds
  /\ nameHints' = rs.nameHints

\* reader.read() reports done: the upstream body ended after pos bytes
ReadDone ==
  /\ pc = "read"
  /\ AfterLoop(AtEnd(variant, Relay, buffer))
  /\ UNCHANGED <<variant, body, pos, buffer, held, names, fileMap, lookups>>
  /\ UNCHANGED <<preload, pairVars, handlerVars, extractVars>>

\* reader.read() rejects: catch (err) { controller.error(err); }
ReadError ==
  /\ pc = "read"
  /\ ctl' = IF ctl = "cancelled" THEN ctl ELSE "errored"
  /\ pc' = "end"
  /\ UNCHANGED <<variant, body, pos, buffer, held, full, out, foundFiles, fileIds,
                 nameHints, todo, names, fileMap, lookups>>
  /\ UNCHANGED <<preload, pairVars, handlerVars, extractVars>>

\* the files of the vector store, as GET /v1/files/{id} names them
StoreName(id) == IF id = T_f1 THEN T_a_pdf ELSE T_a_txt
StoreIds == <<T_f1, T_f2>>

\* a file map preloadFileMap may come back with: some of the store's files
FileMaps ==
  {<<>>, <<[k |-> T_f1, v |-> StoreName(T_f1)]>>, <<[k |-> T_f2, v |-> StoreName(T_f2)]>>,
   <<[k |-> T_f1, v |-> StoreName(T_f1)], [k |-> T_f2, v |-> StoreName(T_f2)]>>}

\* preloadFileMap comes to its end, or fails, while the relay does something else:
\* the list of the store's files and the GET /v1/files/{id} of each have been answered
PreloadSettles ==
  /\ preload = "pending"
  /\ preload' = "settled"
  /\ UNCHANGED <<variant, body, pos, buffer, held, full, out, foundFiles, fileIds,
                 nameHints, pc, ctl, todo, names, fileMap, lookups>>
  /\ UNCHANGED <<pairVars, handlerVars, extractVars>>

\* const fileMap = await fileMapPromise.catch(() => new Map());
AwaitPreload(m) ==
  /\ pc = "preload"
  /\ preload = "settled"
  /\ m \in FileMaps
  /\ fileMap' = m
  /\ pc' = "lookup"
  /\ UNCHANGED <<variant, body, pos, buffer, held, full, out, foundFiles, fileIds,
                 nameHints, ctl, todo, names, lookups>>
  /\ UNCHANGED <<preload, pairVars, handlerVars, extractVars>>

\* how GET /v1/files/{id} may end: r.ok with a filename, r.ok without one, a
\* non-success status, a rejected fetch
LookupOutcomes == {"named", "unnamed", "not_ok", "rejected"}

HintOrId(hints, id) == IF MapGet(hints, id) # <<>> THEN MapGet(hints, id) ELSE id

\* part_004 resolveDisplayNames: what one id adds to out[]
ResolvedName004(id, outcome, hints) ==
  CASE outcome = "named" -> stripExt(StoreName(id))
    [] outcome = "unnamed" -> stripExt(id)
    [] OTHER -> stripExt(HintOrId(hints, id))

\* part_002: the name of one id after the fallback lookup
ResolvedName002(id, outcome, hints) ==
  IF outcome = "named" THEN StoreName(id) ELSE HintOrId(hints, id)

\* the display name pushed for one id: part_004 out.push(...), part_002
\* sources.push(prettyTitle(stripExt(name))); "preloaded" is fileMap.get(id)
NameFor(v, id, outcome, hints, map) ==
  IF v = Part004 THEN ResolvedName004(id, outcome, hints)
  ELSE prettyTitle(stripExt(IF outcome = "preloaded" THEN MapGet(map, id)
                            ELSE ResolvedName002(id, outcome, hints)))

\* one turn of for (const id of ids): the next id, resolved from the preloaded map
\* (part_002, no request) or by a request that ends with `outcome`
Lookup(outcome) ==
  /\ pc = "lookup"
  /\ todo # <<>>
  /\ outcome \in LookupOutcomes \cup {"preloaded"}
  /\ outcome = "preloaded" <=> (variant = Part002 /\ MapGet(fileMap, Head(todo)) # <<>>)
  /\ names' = Append(names, NameFor(variant, Head(todo), outcome, nameHints, fileMap))
  /\ lookups' = Append(lookups, [id |-> Head(todo), outcome |-> outcome])
  /\ todo' = Tail(todo)
  /\ UNCHANGED <<variant, body, pos, buffer, held, full, out, foundFiles, fileIds,
                 nameHints, pc, ctl, fileMap>>
  /\ UNCHANGED <<preload, pairVars, handlerVars, extractVars>>

\* the final event sent without waiting for the names still to be resolved
EmitFinalEarly ==
  /\ pc = "lookup"
  /\ out' = out \o <<DoneFrame(full, Dedup(names)), Sentinel>>
  /\ ctl' = "closed"
  /\ pc' = "end"
  /\ UNCHANGED <<variant, body, pos, buffer, held, full, foundFiles, fileIds, nameHints,
                 todo, names, fileMap, lookups>>
  /\ UNCHANGED <<preload, pairVars, handlerVars, extractVars>>

\* return [...new Set(out)] and the final event
EmitFinal ==
  /\ pc = "lookup"
  /\ todo = <<>>
  /\ IF ctl = "cancelled"
     THEN \* sendJSON throws: catch (err) { controller.error(err); }
          UNCHANGED <<out, ctl>>
     ELSE out' = out \o FinalFrames(full, Dedup(names)) /\ ctl' = "closed"
  /\ pc' = "end"
  /\ UNCHANGED <<variant, body, pos, buffer, held, full, foundFiles, fileIds, nameHints,
                 todo, names, fileMap, lookups>>
  /\ UNCHANGED <<preload, pairVars, handlerVars, extractVars>>

\* the client goes away: the host cancels the response stream.  No relay gives
\* new ReadableStream a cancel(), so start(controller) is told nothing
Cancel ==
  /\ pc # "end"
  /\ ctl = "readable"
  /\ ctl' = "cancelled"
  /\ UNCHANGED <<variant, body, pos, buffer, held, full, out, foundFiles, fileIds,
                 nameHints, pc, todo, names, fileMap, lookups>>
  /\ UNCHANGED <<preload, pairVars, handlerVars, extractVars>>

Next ==
  \/ \E n \in 1..Len(body) : Read(n)
  \/ ReadDone
  \/ ReadError
  \/ PreloadSettles
  \/ \E m \in FileMaps : AwaitPreload(m)
  \/ \E o \in LookupOutcomes \cup {"preloaded"} : Lookup(o)
  \/ EmitFinal

Spec == Init /\ [][Next]_vars

\* the relay of a request whose client may go away at any moment
NextCancel == Next \/ Cancel

SpecCancel == Init /\ [][NextCancel]_vars

\* the relay of a request whose upstream sends frames of shapes it does not look for
InitShapes ==
  /\ variant \in StreamingVariants
  /\ body \in {BodyOf(rs) : rs \in ShapeSeqs}
  /\ RelayStart
  /\ HandlerIdle
  /\ ExtractIdle
  /\ PairIdle

SpecShapes == InitShapes /\ [][Next]_vars

(***************************************************************************)
(* Two requests handled at the same time by one deployed handler.          *)
(***************************************************************************)
Pair == {1, 2}

\* the upstream bodies of the two requests
PairBodies == {BodyOf(<<2, 3>>), BodyOf(<<4, 1>>)}

\* how the file lookups of a request may end: all answered, or all refused
LookupEnds(v) == IF v \in LookupVariants THEN BOOLEAN ELSE {FALSE}

\* the relay variables declared at the top of the module: one set for all requests
ModuleScope(r) == 1

\* let full, foundFiles, fileIds, nameHints, decoder are declared in onRequestPost
\* and let buffer in start(controller): every request has a set of its own
RequestScope(r) == r

CellInit ==
  [buffer |-> <<>>, held |-> <<>>, full |-> RelayInit.full,
   foundFiles |-> RelayInit.foundFiles, fileIds |-> RelayInit.fileIds,
   nameHints |-> RelayInit.nameHints]

\* a set of relay variables with the frames of a controller, as the loop's
\* operators take them
RelayOf(c, frames) ==
  [full |-> c.full, out |-> frames, foundFiles |-> c.foundFiles,
   fileIds |-> c.fileIds, nameHints |-> c.nameHints]

\* what follows the read loop, every file lookup ending the same way
EndFrames(v, rs, failed) ==
  CASE v \in {ChatJs, PromptJs} -> FinalFrames(rs.full, SourcesAtEnd(v, rs))
    [] v \in LookupVariants ->
         LET outcome == IF failed THEN "not_ok" ELSE "named"
             resolved == [i \in 1..Len(rs.fileIds) |->
                            NameFor(v, rs.fileIds[i], outcome, rs.nameHints, <<>>)]
         IN FinalFrames(rs.full, Dedup(resolved))
    [] OTHER -> <<Sentinel>>

InitPair ==
  /\ variant \in StreamingVariants
  /\ streams \in [Pair -> {[body |-> b, pos |-> 0, out |-> <<>>, pc |-> "read",
                            failed |-> f] : b \in PairBodies, f \in LookupEnds(variant)}]
  /\ cells = [r \in Pair |-> CellInit]
  /\ RelayIdle
  /\ HandlerIdle
  /\ ExtractIdle

\* one round of the read loop of request r
ReadOf(r, n) ==
  LET st == streams[r]
      c == cells[RequestScope(r)]
  IN /\ st.pc = "read"
     /\ n \in ChunkSizes(Len(st.body) - st.pos)
     /\ LET res == OnChunk(variant, RelayOf(c, st.out), c.buffer, c.held,
                           SubSeq(st.body, st.pos + 1, st.pos + n))
        IN /\ streams' = [streams EXCEPT ![r] = [st EXCEPT !.pos = @ + n,
                                                            !.out = res.rs.out]]
           /\ cells' = [cells EXCEPT ![RequestScope(r)] =
                          [buffer |-> res.buffer, held |-> res.held,
                           full |-> res.rs.full, foundFiles |-> res.rs.foundFiles,
                           fileIds |-> res.rs.fileIds, nameHints |-> res.rs.nameHints]]
     /\ UNCHANGED <<variant, relayVars, handlerVars, extractVars>>

\* the upstream body of request r ends: the lookups, the final event, the sentinel
ReadDoneOf(r) ==
  LET st == streams[r]
      c == cells[RequestScope(r)]
  IN /\ st.pc = "read"
     /\ streams' = [streams EXCEPT ![r] =
                      [st EXCEPT !.pc = "end",
                                 !.out = @ \o EndFrames(variant, RelayOf(c, st.out),
                                                        st.failed)]]
     /\ UNCHANGED <<variant, cells, relayVars, handlerVars, extractVars>>

NextPair ==
  \E r \in Pair :
    \/ \E n \in 1..Len(streams[r].body) : ReadOf(r, n)
    \/ ReadDoneOf(r)

SpecPair == InitPair /\ [][NextPair]_vars

(***************************************************************************)
(* The resolution of display names, from the end of the read loop on: the  *)
(* stream named one identifier, with or without a name for it.             *)
(***************************************************************************)
T_final_pdf == <<"f", "i", "n", "a", "l", ".", "p", "d", "f">>
T_Final_v2_pdf == <<"F", "i", "n", "a", "l", "_", "v", "2", ".", "p", "d", "f">>
T_bylaws_v2_pdf == <<"b", "y", "l", "a", "w", "s", "_", "v", "2", ".", "p", "d", "f">>
T_dot_pdf == <<".", "p", "d", "f">>

\* the names a frame may give with an identifier
HintTexts == {T_a_pdf, T_a_txt, T_final_pdf, T_Final_v2_pdf, T_bylaws_v2_pdf, T_dot_pdf}

\* nameHints after the stream: no name for the identifier, or one
HintMaps(id) == {<<>>} \cup {<<[k |-> id, v |-> h]>> : h \in HintTexts}

InitResolve ==
  /\ variant \in LookupVariants
  /\ \E id \in {T_f1, T_f2} :
       /\ fileIds = <<id>>
       /\ todo = <<id>>
       /\ nameHints \in HintMaps(id)
  /\ fileMap \in IF variant = Part002 THEN FileMaps ELSE {<<>>}
  /\ preload = IF variant = Part002 THEN "settled" ELSE None
  /\ pc = "lookup" /\ ctl = "readable"
  /\ body = <<>> /\ pos = 0 /\ buffer = <<>> /\ held = <<>>
  /\ full = <<>> /\ out = <<>> /\ foundFiles = <<>>
  /\ names = <<>> /\ lookups = <<>>
  /\ HandlerIdle
  /\ ExtractIdle
  /\ PairIdle

NextResolve ==
  \/ \E o \in LookupOutcomes \cup {"preloaded"} : Lookup(o)
  \/ EmitFinal

SpecResolve == InitResolve /\ [][NextResolve]_vars

(***************************************************************************)
(* The text-driven extractor applied to an answer text.                    *)
(***************************************************************************)
Chat2Js == "functions/chat2.js"
Chat3Js == "functions/chat3.js"
Part000 == "unnamed/part_000"
Part003 == "unnamed/part_003"

\* what stands before the keyword, the keyword, what stands between it and the
\* list, the items and separators of the list, and what follows
Leads ==
  {<<>>, T_See \o <<SP>>, T_See \o <<NL>>, T_See \o <<NL, SP>>, T_Sources \o <<NL>>}
Keywords == {<<>>, T_Sources, T_SOURCES}
Gaps == {<<>>, <<SP>>, <<NL>>}
ItemTexts == {<<>>, T_a_pdf, <<SP>> \o T_b_pdf}
Separators == {<<>>, <<",">>, <<";">>}
Pieces == {i \o sep : i \in ItemTexts, sep \in Separators}
Lists == UNION {{Concat(ps) : ps \in [1..n -> Pieces]} : n \in 0..MaxItems}
Tails == {<<>>, <<SP, NL>>, <<NL>> \o T_Thanks}
Answers ==
  {l \o k \o g \o items \o t :
     l \in Leads, k \in Keywords, g \in Gaps, items \in Lists, t \in Tails}

InitExtract ==
  /\ variant = Chat2Js
  /\ answer \in Answers
  /\ sources = None
  /\ RelayIdle
  /\ HandlerIdle
  /\ PairIdle

\* const sources = extractSourcesFromAnswer(answer)
Extract ==
  /\ sources = None
  /\ sources' = extractSourcesFromAnswer(answer)
  /\ UNCHANGED <<variant, answer, relayVars, pairVars, handlerVars>>

NextExtract == Extract

SpecExtract == InitExtract /\ [][NextExtract]_vars

(***************************************************************************)
(* extractAnswer (chat2.js, chat3.js, part_000), on what upstream.json()   *)
(* may give.                                                               *)
(***************************************************************************)
\* a content array holds at most this many segments
MaxSegments == 2

T_message == <<"message">>
T_SourcesLine == <<NL>> \o T_Sources \o <<SP>> \o T_a_pdf

\* the response object, an item of its output array, a segment of an item's content
Data(output_text, output) == [t |-> "object", output_text |-> output_text, output |-> output]
Item(type, content) == [t |-> "object", type |-> type, content |-> content]
Seg(text) == [t |-> "object", text |-> text]

Segs == {Null, Seg(Undefined), Seg(Str(T_hi)), Seg(Str(T_SourcesLine))}
Contents ==
  {Undefined, Str(T_hi)} \cup {Arr(ss) : ss \in UNION {[1..n -> Segs] : n \in 0..MaxSegments}}
MessageItems == {Item(Str(T_message), c) : c \in Contents}
OtherItems == {Null, Item(Str(T_file_search_call), Undefined), Item(Undefined, Arr(<<Seg(Str(T_hi))>>))}
Outputs ==
  {Undefined, EmptyObj, Arr(<<>>)}
    \cup {Arr(<<m>>) : m \in MessageItems \cup OtherItems}
    \cup {Arr(<<o, Item(Str(T_message), Arr(<<Seg(Str(T_hi))>>))>>) :
            o \in OtherItems \cup {Item(Str(T_message), Undefined),
                                   Item(Str(T_message), Arr(<<>>)),
                                   Item(Str(T_message), Arr(<<Seg(Str(T_SourcesLine))>>))}}
TopTexts == {Undefined, Null, Str(<<>>), Str(<<SP, NL>>), Str(T_hi), Str(T_hi \o T_SourcesLine)}
DataShapes ==
  {Null}
    \cup {Data(Undefined, o) : o \in Outputs}
    \cup {Data(t, o) : t \in TopTexts,
                       o \in {Undefined, Arr(<<Item(Str(T_message), Arr(<<Seg(Str(<<"x">>))>>))>>)}}

\* the outcome of a piece of code: it threw, or went on, or returned v
Threw == [threw |-> TRUE, returned |-> FALSE, v |-> <<>>]
WentOn == [threw |-> FALSE, returned |-> FALSE, v |-> <<>>]
Returned(v) == [threw |-> FALSE, returned |-> TRUE, v |-> v]

\* .find((o) => o.type === "message"): reading .type of null throws
RECURSIVE FindMessage(_, _)
FindMessage(items, i) ==
  IF i > Len(items) THEN [threw |-> FALSE, found |-> FALSE, item |-> Null]
  ELSE IF items[i].t # "object" THEN [threw |-> TRUE, found |-> FALSE, item |-> Null]
  ELSE IF items[i].type = Str(T_message) THEN [threw |-> FALSE, found |-> TRUE, item |-> items[i]]
  ELSE FindMessage(items, i + 1)

\* msg.content.map((c) => c.text || "").join(""): reading .text of null throws
RECURSIVE JoinTexts(_, _, _)
JoinTexts(segs, i, acc) ==
  IF i > Len(segs) THEN Returned(acc)
  ELSE IF segs[i].t # "object" THEN Threw
  ELSE JoinTexts(segs, i + 1, acc \o Or(segs[i].text, Str(<<>>)).v)

\* the body of the try: const msg = (data?.output || []).find(...);
\* if (msg?.content?.length) return msg.content.map(...).join("");
MessageText(data) ==
  LET list == Or(IF data.t = "object" THEN data.output ELSE Undefined, Arr(<<>>))
  IN IF list.t # "array" THEN Threw
     ELSE LET hit == FindMessage(list.v, 1)
              content == IF hit.found THEN hit.item.content ELSE Undefined
          IN IF hit.threw THEN Threw
             ELSE IF content.t \notin {"array", "string"} \/ content.v = <<>> THEN WentOn
             ELSE IF content.t = "string" THEN Threw
             ELSE JoinTexts(content.v, 1, <<>>)

\* typeof data?.output_text === "string" && data.output_text.trim()
HasTopText(data) ==
  data.t = "object" /\ IsString(data.output_text) /\ Trim(data.output_text.v) # <<>>

\* the test of output_text with the trim forgotten
extractAnswerUntrimmed(data) ==
  IF data.t = "object" /\ IsString(data.output_text) /\ data.output_text.v # <<>>
  THEN Returned(data.output_text.v)
  ELSE LET r == MessageText(data) IN IF r.returned THEN r ELSE Returned(<<>>)

\* extractAnswer: try { ... } catch {} return "";
extractAnswer(data) ==
  IF HasTopText(data) THEN Returned(data.output_text.v)
  ELSE LET r == MessageText(data) IN IF r.returned THEN r ELSE Returned(<<>>)

(***************************************************************************)
(* The handlers, from the request to the response they return.             *)
(***************************************************************************)
\* the second handler in part_001, a non-streaming pass-through
Part001Json == "unnamed/part_001:145"

\* the handlers that normalise the answer, and those that return the upstream text
ParsingVariants == {Chat2Js, Chat3Js, Part000}
PassThroughVariants == {Part003, Part001Json}
HandlerVariants == StreamingVariants \cup ParsingVariants \cup PassThroughVariants
\* export const onRequest: one handler for every method
OnRequestVariants == {Chat2Js, Chat3Js, Part003}
\* await upstream.text().catch(() => "")
GuardedTextVariants == {ChatJs, Part002, Part004}

\* the methods of the requests of the model
AllMethods == {"POST", "OPTIONS", "GET", "PUT"}

\* the methods a file exports a handler for: onRequest takes them all, part_000 has
\* onRequestPost, onRequestOptions and onRequestGet, the second handler of part_001
\* onRequestPost alone, the others onRequestPost and onRequestOptions
Methods(v) ==
  IF v \in OnRequestVariants THEN AllMethods
  ELSE IF v = Part000 THEN {"POST", "OPTIONS", "GET"}
  ELSE IF v = Part001Json THEN {"POST"}
  ELSE {"POST", "OPTIONS"}

\* what the host answers to a request no exported handler takes: a static asset,
\* not found, or method not allowed
HostStatuses == {200, 404, 405}

\* .slice(0, 4000)
MessageLimit == 4000

\* what request.json() gives: it throws, or null, or an object with or without message
Unparsable == [t |-> "unparsable", v |-> <<>>]
Body(message) == [t |-> "object", message |-> message]
Messages ==
  {Undefined, Null, Str(<<>>), Str(<<SP>>), Str(<<SP, NL, "\t">>), Str(T_hi),
   Str(<<SP>> \o T_hi \o <<NL>>), Num(<<"4", "2">>)}
Bodies == {Unparsable, Null} \cup {Body(m) : m \in Messages}
Requests == [method : AllMethods, body : Bodies]

\* env.OPENAI_API_KEY, env.OPENAI_VECTOR_STORE_ID: set or not
Envs == [OPENAI_API_KEY : BOOLEAN, OPENAI_VECTOR_STORE_ID : BOOLEAN]

\* what fetch gives: it rejects, or a response with a status, with or without a
\* body, whose body can be read to its end or not, and is JSON or not
\* data is what upstream.json() gives for a success whose body is JSON
Rejected == [result |-> "rejected", status |-> 0, body |-> FALSE, readable |-> FALSE,
             json |-> FALSE, data |-> Undefined]
Upstreams ==
  {Rejected} \cup
  {u \in [result : {"response"}, status : {200, 429, 500}, body : BOOLEAN,
          readable : BOOLEAN, json : BOOLEAN, data : DataShapes \cup {Undefined}] :
     /\ ~u.body => u.readable /\ ~u.json
     /\ ~u.readable => ~u.json
     /\ u.data # Undefined <=> u.json /\ u.status = 200}

\* upstream.ok
Ok(u) == u.status \in 200..299

\* what the handler returns; thrown when its promise rejects instead
Response(status, kind, reports) == [status |-> status, kind |-> kind, reports |-> reports]
Pending == Response(0, "pending", 0)
Thrown == Response(0, "thrown", 0)

\* body?.message
MessageOf(b) == IF b.t = "object" THEN b.message ELSE Undefined

\* the message trimmed first and cut afterwards
UserMessageTrimmedFirst(b) == SliceTo(Trim(Or(MessageOf(b), Str(<<>>)).v), MessageLimit)

\* the message taken as it stands, the trim forgotten
UserMessageUntrimmed(b) == SliceTo(Or(MessageOf(b), Str(<<>>)).v, MessageLimit)

\* (body?.message || "").toString().slice(0, 4000).trim()
UserMessage(b) == Trim(SliceTo(Or(MessageOf(b), Str(<<>>)).v, MessageLimit))

\* from the upstream call on, in the relays: the calls made and the response
AfterFetchStreaming(v, u) ==
  IF u.result = "rejected" THEN [calls |-> <<>>, response |-> Thrown]
  ELSE IF ~Ok(u) \/ (v # Part005 /\ ~u.body)
  THEN IF ~u.readable /\ v \notin GuardedTextVariants
       THEN [calls |-> <<"upstream.text">>, response |-> Thrown]
       ELSE [calls |-> <<"upstream.text">>, response |-> Response(502, "error", u.status)]
  ELSE [calls |-> <<>>, response |-> Response(200, "stream", 0)]

\* a handler that returns the upstream body as it stands, success or not
AfterFetchReturnsRaw(v, u) ==
  IF u.result = "rejected" THEN [calls |-> <<>>, response |-> Thrown]
  ELSE IF ~u.readable THEN [calls |-> <<"upstream.text">>, response |-> Thrown]
  ELSE [calls |-> <<"upstream.text">>, response |-> Response(u.status, "passthrough", 0)]

\* from the upstream call on, in chat2.js, chat3.js and part_000; on success the
\* body of the response is { answer, sources }
AfterFetchParsing(v, u) ==
  IF u.result = "rejected" THEN [calls |-> <<>>, response |-> Thrown]
  ELSE IF ~Ok(u)
  THEN IF ~u.readable
       THEN [calls |-> <<"upstream.text">>, response |-> Thrown]
       ELSE [calls |-> <<"upstream.text">>, response |-> Response(u.status, "passthrough", 0)]
  ELSE IF ~u.json
  THEN [calls |-> <<"upstream.json">>, response |-> Thrown]
  ELSE LET a == extractAnswer(u.data)
       IN IF a.threw
          THEN [calls |-> <<"upstream.json", "extractAnswer">>, response |-> Thrown]
          ELSE [calls |-> <<"upstream.json", "extractAnswer", "extractSourcesFromAnswer">>,
                response |-> Response(200, "answer", 0),
                answer |-> a.v,
                sources |-> extractSourcesFromAnswer(a.v)]

\* from the upstream call on, in part_003 and the second handler of part_001
AfterFetchPassThrough(v, u) ==
  IF u.result = "rejected" THEN [calls |-> <<>>, response |-> Thrown]
  ELSE IF ~u.readable THEN [calls |-> <<"upstream.text">>, response |-> Thrown]
  ELSE [calls |-> <<"upstream.text">>, response |-> Response(u.status, "passthrough", 0)]

AfterFetch(v, u) ==
  IF v \in StreamingVariants THEN AfterFetchStreaming(v, u)
  ELSE IF v \in ParsingVariants THEN AfterFetchParsing(v, u)
  ELSE AfterFetchPassThrough(v, u)

\* { role, content }, an entry of the input list of part_005
Entry(role, content) == [t |-> "object", role |-> role, content |-> content]
T_systemPrompt == <<"systemPrompt">>

\* payload.input: the user message, in part_005 after the system prompt in a list
PayloadInput(v, userMessage) ==
  IF v = Part005
  THEN Arr(<<Entry("system", Str(T_systemPrompt)), Entry("user", Str(userMessage))>>)
  ELSE Str(userMessage)

\* a check of the credential that forgets the document collection
ConfiguredKeyOnly(e) == e.OPENAI_API_KEY

\* !(!apiKey || !vectorStoreId): both variables are set, and not to the empty string
Configured(e) == e.OPENAI_API_KEY /\ e.OPENAI_VECTOR_STORE_ID

\* the POST handler: the calls it makes, in order, and what it returns
\* the texts of the handler's own error responses
BadJSON == "Bad JSON"
MissingMessage == "Missing 'message'"
NotConfigured == "Server not configured"

\* return new Response(text, { status }) before anything is fetched
Refused(status, text) ==
  [calls |-> <<"request.json">>, response |-> Response(status, "error", 0),
   input |-> NoInput, said |-> text]

\* the completion call and what follows it
Completion(v, req, u) ==
  LET preloading == IF v = Part002 THEN <<"fetch vector_stores files">> ELSE <<>>
      r == AfterFetch(v, u)
      made == <<"request.json">> \o preloading \o <<"fetch responses">> \o r.calls
  IN [r EXCEPT !.calls = made]
       @@ [input |-> PayloadInput(v, UserMessage(req.body)), said |-> None]

\* the environment looked at before the message
HandlePostConfigFirst(v, req, e, u) ==
  IF req.body = Unparsable THEN Refused(400, BadJSON)
  ELSE IF ~Configured(e) THEN Refused(500, NotConfigured)
  ELSE IF UserMessage(req.body) = <<>> THEN Refused(400, MissingMessage)
  ELSE Completion(v, req, u)

HandlePost(v, req, e, u) ==
  IF req.body = Unparsable THEN Refused(400, BadJSON)
  ELSE IF UserMessage(req.body) = <<>> THEN Refused(400, MissingMessage)
  ELSE IF ~Configured(e) THEN Refused(500, NotConfigured)
  ELSE Completion(v, req, u)

InitHandler ==
  /\ variant \in HandlerVariants
  /\ request \in Requests
  /\ env \in Envs
  /\ upstream \in Upstreams
  /\ response = Pending
  /\ calls = <<>> /\ input = NoInput /\ said = None
  /\ RelayIdle
  /\ ExtractIdle
  /\ PairIdle

\* onRequestOptions, or the OPTIONS branch of onRequest
Preflight ==
  /\ response = Pending
  /\ request.method = "OPTIONS"
  /\ request.method \in Methods(variant)
  /\ response' = Response(200, "preflight", 0)
  /\ UNCHANGED <<variant, request, env, upstream, calls, input, said, relayVars,
                 pairVars, extractVars>>

\* onRequestGet, or the branch of onRequest for any other method
MethodNotAllowed ==
  /\ response = Pending
  /\ request.method \notin {"POST", "OPTIONS"}
  /\ request.method \in Methods(variant)
  /\ response' = Response(405, "error", 0)
  /\ UNCHANGED <<variant, request, env, upstream, calls, input, said, relayVars,
                 pairVars, extractVars>>

\* onRequestPost, or the POST branch of onRequest
Post ==
  /\ response = Pending
  /\ request.method = "POST"
  /\ LET r == HandlePost(variant, request, env, upstream)
     IN /\ response' = r.response
        /\ calls' = r.calls
        /\ input' = r.input
        /\ said' = r.said
        /\ IF r.response.kind = "answer"
           THEN answer' = r.answer /\ sources' = r.sources
           ELSE UNCHANGED extractVars
  /\ UNCHANGED <<variant, request, env, upstream, relayVars, pairVars>>

\* the file exports no handler for the method: the request is answered by the host
Unrouted(status) ==
  /\ response = Pending
  /\ request.method \notin Methods(variant)
  /\ status \in HostStatuses
  /\ response' = Response(status, "host", 0)
  /\ UNCHANGED <<variant, request, env, upstream, calls, input, said, relayVars,
                 pairVars, extractVars>>

NextHandler ==
  \/ Preflight
  \/ MethodNotAllowed
  \/ Post
  \/ \E status \in HostStatuses : Unrouted(status)

SpecHandler == InitHandler /\ [][NextHandler]_vars

(***************************************************************************)
(* POST requests whose message reaches past the 4000 characters kept       *)
(***************************************************************************)
Blanks(n) == [i \in 1..n |-> SP]
Letters(n) == [i \in 1..n |-> "a"]

LongMessages ==
  {Str(Blanks(MessageLimit) \o T_hi),
   Str(Letters(MessageLimit + 1)),
   Str(<<SP>> \o Letters(MessageLimit)),
   Str(Letters(MessageLimit - 1) \o <<SP, NL, "b">>),
   Str(<<NL>> \o T_hi \o Blanks(MessageLimit))}

\* upstream answers that carry no response object to read
PlainUpstreams == {u \in Upstreams : u.data \in {Undefined, Null}}

InitMessage ==
  /\ variant \in HandlerVariants
  /\ request \in [method : {"POST"}, body : {Body(m) : m \in Messages \cup LongMessages}]
  /\ env \in Envs
  /\ upstream \in PlainUpstreams
  /\ response = Pending
  /\ calls = <<>> /\ input = NoInput /\ said = None
  /\ RelayIdle
  /\ ExtractIdle
  /\ PairIdle

NextMessage == Post

SpecMessage == InitMessage /\ [][NextMessage]_vars

(***************************************************************************)
(* What the upstream has sent so far, read without regard to chunks.       *)
(***************************************************************************)
\* the bytes handed over so far
Delivered == SubSeq(body, 1, pos)

\* the relay after the same bytes arriving unsplit, in a single chunk
Unsplit == OnChunk(variant, RelayInit, <<>>, <<>>, Delivered)

\* the frames the relay has enqueued after the read loop
TrailerAfter(u) == SubSeq(out, Len(u.rs.out) + 1, Len(out))

\* the display names the lookups of the ids gave, in the order of the ids
NamesOf(ids, hints) ==
  [i \in 1..Len(lookups) |-> NameFor(variant, ids[i], lookups[i].outcome, hints, fileMap)]

Ended == pc = "end" /\ ctl # "errored"

(***************************************************************************)
(* C1: however the upstream bytes are cut into chunks (a record, or a      *)
(* character, split at any offset), the relay stands where it stands after *)
(* the same bytes in one chunk: same frames, same answer text, same        *)
(* collected sources, same carried-over text; and the trailing frames are  *)
(* those built from that state.                                            *)
(***************************************************************************)
C1_ChunkingInvisible ==
  LET u == Unsplit
      Trailer == TrailerAfter(u)
  IN /\ full = u.rs.full
     /\ foundFiles = u.rs.foundFiles
     /\ fileIds = u.rs.fileIds
     /\ nameHints = u.rs.nameHints
     /\ buffer = u.buffer
     /\ held = u.held
     /\ Len(out) >= Len(u.rs.out)
     /\ SubSeq(out, 1, Len(u.rs.out)) = u.rs.out
     /\ pc # "end" => Trailer = <<>>
     /\ Ended /\ variant \in {ChatJs, PromptJs} =>
          Trailer = <<DoneFrame(u.rs.full, SourcesAtEnd(variant, u.rs)), Sentinel>>
     /\ Ended /\ variant \in LookupVariants =>
          /\ Len(lookups) = Len(u.rs.fileIds)
          /\ Trailer = <<DoneFrame(u.rs.full, Dedup(NamesOf(u.rs.fileIds, u.rs.nameHints))),
                         Sentinel>>
     /\ Ended /\ variant \in {Part001, Part005} => Trailer = <<Sentinel>>

\* a chunk ended inside a data record, in the middle of a two-byte character, after
\* an earlier record went out
C1_Witness ==
  /\ pc = "read"
  /\ held = <<Lead>>
  /\ StartsWith(TrimStart(buffer), T_data)
  /\ out # <<>>

(***************************************************************************)
(* The records received so far, as the upstream wrote them.                *)
(***************************************************************************)
\* the newline-terminated lines among the bytes handed over
LinesSeen == Complete(SplitLines(Decode(<<>>, Delivered).text))

\* the payload of a data: line, empty for any other line
PayloadOf(rawLine) ==
  LET line == TrimStart(rawLine)
  IN IF StartsWith(line, T_data) THEN Trim(Slice(line, 5)) ELSE <<>>

\* a data: [DONE] record has been received
SawSentinel ==
  LET lines == LinesSeen IN \E i \in 1..Len(lines) : PayloadOf(lines[i]) = T_DONE

\* the JSON values of the records received, in order
RECURSIVE EventsIn(_)
EventsIn(lines) ==
  IF lines = <<>> THEN <<>>
  ELSE LET data == PayloadOf(Head(lines))
       IN (IF data \in JsonTexts THEN <<JsonValue(data)>> ELSE <<>>) \o EventsIn(Tail(lines))

EventsSeen == EventsIn(LinesSeen)

\* the text increment a frame carries, if it carries one
IncrementOf(evt) ==
  IF evt.t # "object" THEN <<>>
  ELSE IF evt.delta.t = "string" THEN <<evt.delta.v>>
  ELSE IF evt.output_text.t = "string" THEN <<evt.output_text.v>>
  ELSE <<>>

IncrementsSeen ==
  LET evts == EventsSeen IN Concat([i \in 1..Len(evts) |-> IncrementOf(evts[i])])

\* the result entries of a frame
EntriesOf(evt) ==
  IF evt.t = "object" /\ evt.results.t = "array" THEN evt.results.v ELSE <<>>

\* the file identifier an entry names, if it names one
EntryId(r) ==
  IF r.file.t = "object" /\ r.file.id.t = "string" /\ r.file.id.v # <<>> THEN <<r.file.id.v>>
  ELSE IF r.file_id.t = "string" /\ r.file_id.v # <<>> THEN <<r.file_id.v>>
  ELSE <<>>

\* the file name an entry gives with its identifier, if it gives one
EntryFilename(r) ==
  IF r.file.t = "object" /\ r.file.filename.t = "string" /\ r.file.filename.v # <<>>
  THEN {r.file.filename.v}
  ELSE IF r.filename.t = "string" /\ r.filename.v # <<>> THEN {r.filename.v}
  ELSE {}

EntriesSeen ==
  LET evts == EventsSeen IN Concat([i \in 1..Len(evts) |-> EntriesOf(evts[i])])

\* every identifier named, with repeats, in order of appearance
IdsMentioned ==
  LET entries == EntriesSeen IN Concat([i \in 1..Len(entries) |-> EntryId(entries[i])])

\* the elements of xs at their first occurrence
FirstOccurrences(xs) ==
  LET keep == {i \in 1..Len(xs) : \A j \in 1..(i - 1) : xs[j] # xs[i]}
      rank(i) == Cardinality({j \in keep : j <= i})
  IN [n \in 1..Cardinality(keep) |-> xs[CHOOSE i \in keep : rank(i) = n]]

\* the distinct identifiers observed, in order of first appearance
IdsObserved == FirstOccurrences(IdsMentioned)

\* the file names the frames gave for an identifier
FilenamesGivenIn(entries, id) ==
  UNION {EntryFilename(entries[i]) :
           i \in {j \in 1..Len(entries) : EntryId(entries[j]) = <<id>>}}

FramesOfKind(k) == SelectSeq(out, LAMBDA f : f.k = k)
TextsSent ==
  LET sent == FramesOfKind("output_text") IN [i \in 1..Len(sent) |-> sent[i].text]

\* the downstream frames end with one done frame and then the sentinel
EndsWithDone ==
  /\ Len(out) >= 2
  /\ out[Len(out)] = Sentinel
  /\ out[Len(out) - 1].k = "done"
  /\ Len(FramesOfKind("done")) = 1
  /\ Len(FramesOfKind("sentinel")) = 1
  /\ \A i \in 1..(Len(out) - 2) : out[i].k = "output_text"

\* the done frame, when the frames end with one
Done == out[Len(out) - 1]

(***************************************************************************)
(* C2, as claimed: in the metadata-driven relays the sources of the        *)
(* terminal frame are as many as the distinct identifiers observed.        *)
(***************************************************************************)
C2_OneSourcePerIdentifier ==
  Ended /\ variant \in MetadataVariants =>
    EndsWithDone /\ Len(Done.sources) = Len(IdsObserved)

(***************************************************************************)
(* C2, amended: in chat.js (the Map) the sources of the terminal frame are *)
(* one per distinct identifier, in order of first appearance, each a file  *)
(* name given for its identifier or the identifier itself; in part_004 and *)
(* part_002 (the lookups) each distinct identifier is resolved once, in    *)
(* order of first appearance, and the sources are the resolved display     *)
(* names at their first occurrence: as many as the distinct display names, *)
(* at most as many as the distinct identifiers.                            *)
(***************************************************************************)
C2_SourcesFollowIdentifiers ==
  Ended /\ variant \in MetadataVariants =>
    LET entries == EntriesSeen
        ids == IdsObserved
    IN /\ EndsWithDone
       /\ variant = ChatJs =>
            /\ Len(Done.sources) = Len(ids)
            /\ \A i \in 1..Len(ids) :
                 Done.sources[i] \in FilenamesGivenIn(entries, ids[i]) \cup {ids[i]}
       /\ variant \in LookupVariants =>
            /\ [i \in 1..Len(lookups) |-> lookups[i].id] = ids
            /\ Len(names) = Len(ids)
            /\ Done.sources = FirstOccurrences(names)
            /\ Len(Done.sources) <= Len(ids)

\* chat.js has ended a stream that named two identifiers, one of them repeatedly
C2_Witness ==
  /\ Ended /\ variant = ChatJs
  /\ Len(IdsObserved) = 2
  /\ Len(IdsMentioned) > 2
  /\ Len(Done.sources) = 2

(***************************************************************************)
(* C7, as claimed: when the upstream ends without a read error, the frames *)
(* end with exactly one done frame, carrying the answer, and the sentinel. *)
(***************************************************************************)
C7_EndsWithDoneFrame == Ended => EndsWithDone /\ Done.text = full

(***************************************************************************)
(* C7, amended: in the relays that accumulate the answer (chat.js,         *)
(* part_002, part_004, system_prompt.md), when the upstream ends without a *)
(* read error the frames end with exactly one done frame, carrying the     *)
(* accumulated answer and the final source list, then the sentinel, and    *)
(* the stream is closed; only output_text frames precede it.  The relays   *)
(* that only forward text (part_001, part_005) end with the sentinel and   *)
(* send no done frame.  No relay sends a done frame or the sentinel        *)
(* before the upstream has ended, or more than once.                       *)
(***************************************************************************)
C7_DoneFrameThenSentinel ==
  /\ Ended /\ variant \in AccumulatingVariants =>
       /\ EndsWithDone
       /\ ctl = "closed"
       /\ Done.text = full
       /\ Done.sources =
            CASE variant = ChatJs -> [i \in 1..Len(foundFiles) |-> foundFiles[i].v]
              [] variant = PromptJs -> extractSourcesFromAnswer(full)
              [] OTHER -> FirstOccurrences(names)
  /\ Ended /\ variant \notin AccumulatingVariants =>
       /\ out[Len(out)] = Sentinel
       /\ Len(FramesOfKind("sentinel")) = 1
       /\ FramesOfKind("done") = <<>>
  /\ ~Ended => FramesOfKind("done") = <<>> /\ FramesOfKind("sentinel") = <<>>

\* chat.js has ended a stream with answer text and a source
C7_Witness ==
  /\ Ended /\ variant = ChatJs
  /\ EndsWithDone
  /\ Done.text # <<>>
  /\ Done.sources # <<>>

(***************************************************************************)
(* C8: in the relays that keep the answer, at every point `full` is the    *)
(* concatenation, in order, of the texts of the output_text frames sent so *)
(* far; these are exactly the increments of the records received, one per  *)
(* frame with a string delta or else a string output_text; and the done    *)
(* frame carries the concatenation of them all.                            *)
(***************************************************************************)
C8_FullIsWhatWasSent ==
  variant \in AccumulatingVariants =>
    LET sent == TextsSent
        seen == IncrementsSeen
    IN /\ full = Concat(sent)
       /\ sent = seen
       /\ Ended => Done.text = Concat(seen)

\* mid-stream, two increments taken from two different fields have gone out
C8_Witness ==
  /\ pc = "read" /\ variant = ChatJs
  /\ Len(TextsSent) = 2
  /\ TextsSent[1] = <<EAcute>>
  /\ TextsSent[2] # <<EAcute>>

(***************************************************************************)
(* C9, as claimed: if the upstream ends (end of stream, or a failed read)  *)
(* before any [DONE] record, the relay has still sent a frame carrying all *)
(* the answer text accumulated.                                            *)
(***************************************************************************)
C9_PartialAnswerSent ==
  pc = "end" /\ variant \in AccumulatingVariants /\ ~SawSentinel /\ full # <<>> =>
    \E i \in 1..Len(out) : out[i].k = "done" /\ out[i].text = full

(***************************************************************************)
(* C10, as claimed: a stream whose upstream ended before its [DONE] record *)
(* never ends downstream the way a clean completion does, with the done    *)
(* frame, the sentinel and a closed stream.                                *)
(***************************************************************************)
C10_InterruptedIsNotClean ==
  pc = "end" /\ variant \in AccumulatingVariants /\ ~SawSentinel /\ full # <<>> =>
    ~(ctl = "closed" /\ EndsWithDone)

(***************************************************************************)
(* The answer text read line by line.                                      *)
(***************************************************************************)
Blank(l) == \A i \in 1..Len(l) : IsWs(l[i])

\* the line begins, after optional whitespace, with Sources: in any case
Heading(l) ==
  LET t == TrimStart(l)
  IN Len(t) >= Len(T_Sources) /\ ToLower(SubSeq(t, 1, Len(T_Sources))) = ToLower(T_Sources)

\* what follows Sources: on a heading line
AfterHeading(l) ==
  LET t == TrimStart(l) IN SubSeq(t, Len(T_Sources) + 1, Len(t))

\* the last line with text on it, 0 when there is none
LastTextLine(ls) ==
  LET text == {n \in 1..Len(ls) : ~Blank(ls[n])}
  IN IF text = {} THEN 0 ELSE CHOOSE n \in text : \A m \in text : m <= n

\* the heading lines that the last text line belongs to: that line itself, or an
\* earlier line with nothing after Sources: and only blank lines in between
HeadingsOfLast(ls) ==
  LET n == LastTextLine(ls)
  IN {h \in 1..n :
        /\ Heading(ls[h])
        /\ h < n => Blank(AfterHeading(ls[h])) /\ \A j \in (h + 1)..(n - 1) : Blank(ls[j])}

\* the list the trailing Sources: line gives, empty when there is no such line
TrailingList(text) ==
  LET ls == SplitLines(text)
      n == LastTextLine(ls)
      hs == HeadingsOfLast(ls)
      h == CHOOSE x \in hs : \A y \in hs : x <= y
  IN IF hs = {} THEN <<>>
     ELSE IF h = n THEN AfterHeading(ls[n])
     ELSE ls[n]

\* the items of a list: cut at commas and semicolons, stripped, empty ones dropped
ItemsOf(list) ==
  LET cuts == {0, Len(list) + 1} \cup {i \in 1..Len(list) : list[i] \in {",", ";"}}
      next(c) == CHOOSE d \in cuts : d > c /\ \A e \in cuts : e > c => d <= e
      inner(c) == {i \in (c + 1)..(next(c) - 1) : ~IsWs(list[i])}
      starts == {c \in cuts : c <= Len(list) /\ inner(c) # {}}
      rank(c) == Cardinality({d \in starts : d <= c})
      item(c) ==
        SubSeq(list, CHOOSE i \in inner(c) : \A j \in inner(c) : i <= j,
                     CHOOSE i \in inner(c) : \A j \in inner(c) : j <= i)
  IN [r \in 1..Cardinality(starts) |-> item(CHOOSE c \in starts : rank(c) = r)]

EndsWith(text, suffix) ==
  Len(text) >= Len(suffix) /\ SubSeq(text, Len(text) - Len(suffix) + 1, Len(text)) = suffix

\* Sources: stands somewhere in the text, in any case
MentionsSources(text) == Includes(ToLower(text), ToLower(T_Sources))

T_Example1 == T_Sources \o <<SP>> \o T_a_pdf \o <<",", SP>> \o T_b_pdf
T_Example2 == T_Sources \o <<SP>> \o T_a_pdf \o <<";", SP>> \o T_b_pdf \o <<";">>

(***************************************************************************)
(* C3, as claimed: for a text ending in "\nSources: a.pdf, b.pdf" and for  *)
(* a text ending in "Sources: a.pdf; b.pdf;" the extractor returns a.pdf,  *)
(* b.pdf; for a text whose last line with text on it holds Sources: it     *)
(* returns the items of what follows; for a text without Sources: it       *)
(* returns the empty list.                                                 *)
(***************************************************************************)
C3_ItemsOfSourcesList ==
  sources # None =>
    /\ EndsWith(answer, <<NL>> \o T_Example1) => sources = <<T_a_pdf, T_b_pdf>>
    /\ EndsWith(answer, T_Example2) => sources = <<T_a_pdf, T_b_pdf>>
    /\ ~MentionsSources(answer) => sources = <<>>

(***************************************************************************)
(* C3, amended: let L be the last line of the text that is not blank.  If  *)
(* L begins, after optional whitespace, with Sources: (in any case), the   *)
(* extractor returns the items of the rest of L; if an earlier line begins *)
(* with Sources:, has only whitespace after it and only blank lines        *)
(* between it and L, it returns the items of L, the earliest such line     *)
(* deciding; otherwise, so when Sources: stands in mid-line or text lines  *)
(* follow its line, it returns the empty list.  Items are cut at commas    *)
(* and semicolons, trimmed, in order, empty ones dropped.  So a text whose *)
(* last line is "Sources: a.pdf, b.pdf" or "Sources: a.pdf; b.pdf;", with  *)
(* no Sources: line before it, gives a.pdf, b.pdf, and a text without      *)
(* Sources: gives the empty list.                                          *)
(***************************************************************************)
C3_ItemsOfTrailingSourcesLine ==
  sources # None =>
    /\ sources = ItemsOf(TrailingList(answer))
    /\ \A ex \in {T_Example1, T_Example2} :
         answer = ex \/ answer \in {l \o ex : l \in {T_See \o <<NL>>, T_See \o <<NL, SP>>}}
           => sources = <<T_a_pdf, T_b_pdf>>
    /\ ~MentionsSources(answer) => sources = <<>>

\* the extractor has returned the two names of a last line with a trailing separator
C3_Witness ==
  /\ answer = T_See \o <<NL>> \o T_Example2
  /\ sources # None
  /\ sources = <<T_a_pdf, T_b_pdf>>

(***************************************************************************)
(* The request as the caller sent it, and what the handler did with it.    *)
(***************************************************************************)
\* the handler has returned, or thrown
Handled == response.kind # "pending"

\* the handler made the call c
Called(c) == \E i \in 1..Len(calls) : calls[i] = c

\* the JSON body parsed, and its message is missing, empty or only whitespace
MessageMissingOrBlank(b) ==
  /\ b.t # "unparsable"
  /\ \/ b.t # "object"
     \/ b.message.t \in {"undefined", "null"}
     \/ b.message.t = "string" /\ \A i \in 1..Len(b.message.v) : IsWs(b.message.v[i])

\* the upstream answered the completion call with a status that is not a success
UpstreamRefused ==
  /\ Called("fetch responses")
  /\ upstream.result = "response"
  /\ upstream.status \notin 200..299

(***************************************************************************)
(* C4: a POST whose JSON body has a missing, empty or whitespace-only      *)
(* message is answered with 400, and the handler issues no upstream call   *)
(* for it: not the completion call, no file lookup, no read of an upstream *)
(* response.                                                               *)
(***************************************************************************)
C4_BlankMessageIs400 ==
  Handled /\ request.method = "POST" /\ MessageMissingOrBlank(request.body) =>
    /\ response.status = 400
    /\ response.kind = "error"
    /\ calls = <<"request.json">>

\* part_002, configured and with a reachable upstream, has refused a message of
\* blanks, a newline and a tab
C4_Witness ==
  /\ Handled /\ variant = Part002
  /\ request.method = "POST"
  /\ request.body = Body(Str(<<SP, NL, "\t">>))
  /\ env.OPENAI_API_KEY /\ env.OPENAI_VECTOR_STORE_ID
  /\ upstream.result = "response" /\ upstream.status = 200
  /\ response.status = 400

(***************************************************************************)
(* C5, as claimed: when the upstream answers the completion call with a    *)
(* status that is not a success, every handler returns an error response   *)
(* that carries the upstream status, as its own status or in its body, and *)
(* neither parses an answer from the upstream body nor opens a stream.     *)
(***************************************************************************)
C5_UpstreamErrorReported ==
  UpstreamRefused =>
    /\ response.kind \in {"error", "passthrough"}
    /\ response.status = upstream.status \/ response.reports = upstream.status
    /\ ~Called("upstream.json") /\ ~Called("extractAnswer")

(***************************************************************************)
(* C6, as claimed: when the completion call fails (fetch rejects) or the   *)
(* upstream response has no body, the handler returns a 502 response; the  *)
(* failure does not leave the handler as an exception.                     *)
(***************************************************************************)
C6_UpstreamFailureIs502 ==
  Called("fetch responses") /\ (upstream.result = "rejected" \/ ~upstream.body) =>
    /\ response.kind = "error"
    /\ response.status = 502

(***************************************************************************)
(* The stream without its malformed records.                               *)
(***************************************************************************)
\* a data: line whose payload is neither empty, nor the sentinel, nor JSON
Malformed(rawLine) ==
  LET data == PayloadOf(rawLine)
  IN data # <<>> /\ data # T_DONE /\ data \notin JsonTexts

MalformedSeen == SelectSeq(LinesSeen, Malformed)

\* the relay after the lines received, the malformed ones taken out
Cleaned == OnLines(variant, RelayInit, SelectSeq(LinesSeen, LAMBDA l : ~Malformed(l)))

\* the frames sent in the read loop
LoopFrames == SelectSeq(out, LAMBDA f : f.k \notin {"done", "sentinel"})

\* the relay stands where the stream without its malformed records leaves it
SameAsCleaned(c, frames) ==
  /\ frames = c.out
  /\ full = c.full
  /\ foundFiles = c.foundFiles
  /\ fileIds = c.fileIds
  /\ nameHints = c.nameHints
  /\ Ended /\ variant \in AccumulatingVariants =>
       /\ Done.text = c.full
       /\ Done.sources =
            CASE variant = ChatJs -> MapValues(c.foundFiles)
              [] variant = PromptJs -> extractSourcesFromAnswer(c.full)
              [] OTHER -> Dedup(NamesOf(c.fileIds, c.nameHints))

(***************************************************************************)
(* C11, as claimed: in every relay a data: record whose payload is not     *)
(* JSON leaves no trace: frames, answer and sources are those of the same  *)
(* stream without such records.                                            *)
(***************************************************************************)
C11_MalformedLeavesNoTrace == SameAsCleaned(Cleaned, LoopFrames)

(***************************************************************************)
(* C11, amended: in the relays that accumulate the answer (chat.js,        *)
(* part_002, part_004, system_prompt.md) a data: record whose payload is   *)
(* not JSON leaves no trace and the stream goes on: frames, answer,        *)
(* collected identifiers and hints, and the done frame are those of the    *)
(* same stream without such records.  The relays that only forward text    *)
(* forward the payload as it stands, one frame per malformed record        *)
(* (part_001 as an output_text frame, part_005 as raw data), and their     *)
(* other frames are those of the stream without such records.              *)
(***************************************************************************)
C11_MalformedDroppedOrForwarded ==
  LET c == Cleaned
      frames == LoopFrames
      bad == MalformedSeen
      forwarded == SelectSeq(frames, LAMBDA f : f.text = J_bad)
  IN /\ variant \in AccumulatingVariants => SameAsCleaned(c, frames)
     /\ variant \in {Part001, Part005} =>
          /\ SameAsCleaned(c, SelectSeq(frames, LAMBDA f : f.text # J_bad))
          /\ Len(forwarded) = Len(bad)
          /\ \A i \in 1..Len(forwarded) :
               forwarded[i].k = IF variant = Part001 THEN "output_text" ELSE "raw"

\* chat.js has ended a stream whose first record was malformed and whose second
\* carried text
C11_Witness ==
  /\ Ended /\ variant = ChatJs
  /\ Len(LinesSeen) = 2
  /\ Malformed(LinesSeen[1])
  /\ full # <<>>
  /\ Len(out) = 3

(***************************************************************************)
(* The file lookups in the course of the relay.                            *)
(***************************************************************************)
\* the done frame has been sent
DoneSent == FramesOfKind("done") # <<>>

\* every identifier collected has been resolved, in the order of collection
AllResolved ==
  /\ todo = <<>>
  /\ [i \in 1..Len(lookups) |-> lookups[i].id] = fileIds
  /\ Len(names) = Len(fileIds)

(***************************************************************************)
(* C12, as claimed: in part_004 and part_002 no file lookup is issued      *)
(* while the upstream stream is still being read, and every lookup has     *)
(* come to its end before the done frame is sent.                          *)
(***************************************************************************)
C12_LookupsBetweenStreamAndDone ==
  variant \in LookupVariants =>
    /\ pc = "read" => lookups = <<>> /\ preload = None
    /\ DoneSent => AllResolved /\ preload # "pending"

(***************************************************************************)
(* C12, amended: in part_004 and part_002 the lookup of a collected        *)
(* identifier is issued only after the upstream stream has been read to    *)
(* its end, one identifier after the other in the order of collection,     *)
(* and all of them have come to their end before the done frame is sent;   *)
(* while the stream is read nothing is awaited but the next chunk.         *)
(* part_004 issues no other lookup.  part_002 also starts, before the      *)
(* completion call, a preload of the names of all files of the store,      *)
(* which runs while the stream is read and is awaited only after the       *)
(* stream has ended: it has settled before any identifier is resolved and  *)
(* before the done frame is sent.                                          *)
(***************************************************************************)
C12_LookupsAfterStreamPreloadBeside ==
  variant \in LookupVariants =>
    /\ pc = "read" => lookups = <<>> /\ names = <<>> /\ todo = <<>> /\ fileMap = <<>>
    /\ DoneSent => AllResolved /\ pc = "end"
    /\ variant = Part004 => preload = None
    /\ variant = Part002 =>
         /\ preload \in {"pending", "settled"}
         /\ pc = "lookup" \/ DoneSent \/ lookups # <<>> => preload = "settled"
         /\ \A i \in 1..Len(lookups) :
              lookups[i].outcome = "preloaded" <=> MapHas(fileMap, lookups[i].id)

\* part_002 has sent the done frame after two identifiers, one found in the preloaded
\* map and one looked up by a request that failed
C12_Witness ==
  /\ variant = Part002 /\ DoneSent
  /\ Len(lookups) = 2
  /\ lookups[1].outcome = "preloaded"
  /\ lookups[2].outcome = "rejected"

(***************************************************************************)
(* The display name of an identifier whose lookup failed.                  *)
(***************************************************************************)
\* the lookup of lookups[i] ended with a non-success status or a network error
LookupFailed(i) == lookups[i].outcome \in {"not_ok", "rejected"}

\* the name as the variant shows it: part_004 strips the extension, part_002 also
\* gives it a title
Shown(v, name) == IF v = Part004 THEN stripExt(name) ELSE prettyTitle(stripExt(name))

(***************************************************************************)
(* C13, as claimed: after a failed lookup the display name is that of the  *)
(* hint the stream gave for the identifier, or else that of the identifier *)
(* itself, whichever way the lookup failed; and no entry of the sources of *)
(* the done frame is empty.                                                *)
(***************************************************************************)
C13_FallbackNeverEmpty ==
  /\ \A i \in 1..Len(lookups) :
       LookupFailed(i) =>
         /\ names[i] = Shown(variant, HintOrId(nameHints, lookups[i].id))
         /\ names[i] # <<>>
  /\ DoneSent => \A j \in 1..Len(Done.sources) : Done.sources[j] # <<>>

(***************************************************************************)
(* C14, as claimed: an OPTIONS request is answered with a preflight        *)
(* response without a body, a request with any method but POST and OPTIONS *)
(* with 405; for neither is the body parsed or an upstream call issued.    *)
(***************************************************************************)
C14_MethodDispatch ==
  Handled /\ request.method # "POST" =>
    /\ calls = <<>>
    /\ request.method = "OPTIONS" => response.kind = "preflight"
    /\ request.method # "OPTIONS" => response.kind = "error" /\ response.status = 405

(***************************************************************************)
(* C15: a POST with a message that is not blank, on a server where the API *)
(* credential or the identifier of the document collection is not set, is  *)
(* answered with 500, and no upstream call is issued for it: neither the   *)
(* completion call nor a file lookup.                                      *)
(***************************************************************************)
C15_NotConfiguredIs500 ==
  /\ Handled /\ request.method = "POST"
  /\ request.body.t = "object" /\ ~MessageMissingOrBlank(request.body)
  /\ ~env.OPENAI_API_KEY \/ ~env.OPENAI_VECTOR_STORE_ID
  => /\ response.status = 500
     /\ response.kind = "error"
     /\ calls = <<"request.json">>

\* part_002, with the credential but without the document collection, has refused a
\* message the upstream would have answered
C15_Witness ==
  /\ Handled /\ variant = Part002
  /\ request.method = "POST"
  /\ request.body = Body(Str(T_hi))
  /\ env.OPENAI_API_KEY /\ ~env.OPENAI_VECTOR_STORE_ID
  /\ upstream.result = "response" /\ upstream.status = 200
  /\ response.status = 500

(***************************************************************************)
(* The answer a response object holds, read off its shape.                 *)
(***************************************************************************)
\* the upstream answered the completion call with a success whose body is JSON
UpstreamSucceeded ==
  /\ Called("fetch responses")
  /\ upstream.result = "response"
  /\ upstream.status = 200
  /\ upstream.json

\* the top-level output_text is a string with more than white space in it
TopTextGiven(data) ==
  /\ data.t = "object"
  /\ data.output_text.t = "string"
  /\ \E i \in 1..Len(data.output_text.v) : ~IsWs(data.output_text.v[i])

\* the items of the output array, none when there is no such array
ItemsIn(data) ==
  IF data.t = "object" /\ data.output.t = "array" THEN data.output.v ELSE <<>>

\* the places of the items of type message
MessagesIn(items) ==
  {i \in 1..Len(items) : items[i].t = "object" /\ items[i].type = Str(T_message)}

\* the text of a segment, empty when it has none
SegText(seg) == IF seg.text.t = "string" THEN seg.text.v ELSE <<>>

\* the first item of type message can be read: objects before it, and its content
\* an array of objects
FirstMessageReadable(items) ==
  LET hits == MessagesIn(items)
      first == CHOOSE i \in hits : \A j \in hits : i <= j
  IN /\ hits # {}
     /\ \A j \in 1..first : items[j].t = "object"
     /\ items[first].content.t = "array"
     /\ \A k \in 1..Len(items[first].content.v) : items[first].content.v[k].t = "object"

ExpectedAnswer(data) ==
  LET items == ItemsIn(data)
      hits == MessagesIn(items)
      segs == items[CHOOSE i \in hits : \A j \in hits : i <= j].content.v
  IN IF TopTextGiven(data) THEN data.output_text.v
     ELSE IF FirstMessageReadable(items) THEN Concat([k \in 1..Len(segs) |-> SegText(segs[k])])
     ELSE <<>>

UserTextOf(in) ==
  IF in.t = "string" THEN in.v ELSE in.v[Len(in.v)].content.v

\* the message of the request as a string (a call is issued for truthy messages only)
MessageText18 == request.body.message.v

\* how many characters of the message are kept at most
Kept18 == Min(Len(MessageText18), MessageLimit)

\* the white space that leads the kept characters
LeadingBlanks18 ==
  Cardinality({i \in 1..Kept18 : \A j \in 1..i : IsWs(MessageText18[j])})

\* C18: whenever the completion call is issued, its input is the message of
\* the request as a string, cut to its first 4000 characters and then
\* trimmed: it is not empty, has at most 4000 characters and neither starts
\* nor ends with white space (in part_005 the text is the content of the
\* user entry of the input list).  A message whose first 4000 characters are
\* all white space is answered with 400 and no call, whatever follows them.
C18_InputIsCutThenTrimmed ==
  /\ input # NoInput <=> Called("fetch responses")
  /\ input # NoInput =>
       LET text == UserTextOf(input)
           m == MessageText18
           k == LeadingBlanks18
       IN /\ text # <<>>
          /\ Len(text) <= MessageLimit
          /\ ~IsWs(text[1]) /\ ~IsWs(text[Len(text)])
          /\ k + Len(text) <= Kept18
          /\ text = SubSeq(m, k + 1, k + Len(text))
          /\ \A i \in (k + Len(text) + 1)..Kept18 : IsWs(m[i])
  /\ ( /\ Handled
       /\ request.body.t = "object"
       /\ request.body.message.t = "string"
       /\ \A i \in 1..Kept18 : IsWs(MessageText18[i]) )
     => response.status = 400 /\ ~Called("fetch responses")

\* a call was issued for a message longer than the limit that has white space
\* at the cut
C18_Witness ==
  /\ input # NoInput
  /\ Len(MessageText18) > MessageLimit
  /\ IsWs(MessageText18[MessageLimit])
  /\ Len(UserTextOf(input)) = MessageLimit - 1

\* a message of 4000 blanks followed by text was refused
C18_BlankStartRefused ==
  /\ Handled
  /\ request.body.t = "object"
  /\ request.body.message.t = "string"
  /\ Len(MessageText18) > MessageLimit
  /\ ~IsWs(MessageText18[Len(MessageText18)])
  /\ response.status = 400

(***************************************************************************)
(* C19: the client cancels the response stream                             *)
(***************************************************************************)
\* C19: once the client has cancelled the response stream the relay stops
\* reading the upstream: no further chunk is consumed and no further text
\* is accumulated.
C19_CancelStopsReading ==
  [][ctl = "cancelled" => pos' = pos /\ full' = full]_vars

(***************************************************************************)
(* C20: the relay state of a request is its own                            *)
(***************************************************************************)
\* request r handled alone, up to the bytes read so far
Alone(r) ==
  OnChunk(variant, RelayInit, <<>>, <<>>, SubSeq(streams[r].body, 1, streams[r].pos))

\* the frames request r handled alone has sent
AloneFrames(r) ==
  LET a == Alone(r)
  IN a.rs.out \o (IF streams[r].pc = "end"
                  THEN EndFrames(variant, a.rs, streams[r].failed) ELSE <<>>)

\* C20: however the chunks of two requests handled at the same time
\* interleave, the partial line, the answer so far and the sources of each
\* request are those of its own upstream stream, and the frames it sends,
\* the final event with `final` and `sources` among them, are the frames it
\* sends when it is handled alone.
C20_RelayStateIsRequestLocal ==
  \A r \in Pair :
    LET a == Alone(r)
        c == cells[r]
    IN /\ c.buffer = a.buffer
       /\ c.held = a.held
       /\ RelayOf(c, streams[r].out) = [a.rs EXCEPT !.out = streams[r].out]
       /\ streams[r].out = AloneFrames(r)

\* request 1 has sent its final event with an answer and sources while
\* request 2, on another body, stands in the middle of a line
C20_Witness ==
  /\ streams[1].pc = "end" /\ streams[1].pos = Len(streams[1].body)
  /\ variant = ChatJs
  /\ cells[1].full # <<>> /\ cells[1].foundFiles # <<>>
  /\ streams[2].pc = "read" /\ streams[2].pos > 0
  /\ cells[2].buffer # <<>>
  /\ cells[2].foundFiles # <<>>
  /\ cells[2].foundFiles # cells[1].foundFiles

(***************************************************************************)
(* C21: frames of a shape the relays do not look for                       *)
(***************************************************************************)
\* a record whose payload is JSON with no string delta, no string output_text
\* and no results array
UnknownShape(rawLine) ==
  LET data == PayloadOf(rawLine)
  IN /\ data \in JsonTexts
     /\ LET evt == JsonValue(data)
        IN \/ evt.t # "object"
           \/ /\ evt.delta.t # "string"
              /\ evt.output_text.t # "string"
              /\ evt.results.t # "array"

\* the relay after the lines received, those of an unknown shape taken out
Known == OnLines(variant, RelayInit, SelectSeq(LinesSeen, LAMBDA l : ~UnknownShape(l)))

\* the records received that have a payload to parse
PayloadsSeen == SelectSeq(LinesSeen, LAMBDA l : PayloadOf(l) \notin {<<>>, T_DONE})

\* C21, as claimed: in every relay a frame whose payload is JSON with no
\* string delta, no string output_text and no results array sends nothing
\* and changes nothing: frames, answer and sources are those of the same
\* stream without such frames, and the stream goes on.
C21_UnknownShapeLeavesNoTrace == SameAsCleaned(Known, LoopFrames)

\* C21, amended: in chat.js, system_prompt.md, part_001, part_002 and
\* part_004 such a frame sends nothing and changes nothing, and the stream
\* goes on: frames, answer, sources and the final event are those of the
\* same stream without such frames.  part_005 keeps no answer and no
\* sources and sends one frame for every record with a payload: for a
\* frame of an unknown shape an output_text frame with the empty text (with
\* the value of output_text when that is truthy and no string), for JSON
\* null the payload as raw data; its other frames are those of the
\* stream without such frames, and its stream goes on as well.
UnknownShapeDroppedOrEmptyFrame ==
  LET c == Known
      frames == LoopFrames
      recs == PayloadsSeen
      others == SelectSeq([i \in 1..Len(recs) |-> i], LAMBDA i : ~UnknownShape(recs[i]))
  IN /\ variant # Part005 => SameAsCleaned(c, frames)
     /\ variant = Part005 =>
          /\ Len(frames) = Len(recs)
          /\ \A i \in 1..Len(recs) :
               UnknownShape(recs[i]) =>
                 frames[i] = CASE PayloadOf(recs[i]) = J_null -> RawFrame(J_null)
                               [] PayloadOf(recs[i]) = J_count -> TextFrame(<<"5">>)
                               [] OTHER -> TextFrame(<<>>)
          /\ [k \in 1..Len(others) |-> frames[others[k]]] = c.out
          /\ full = <<>> /\ foundFiles = <<>> /\ fileIds = <<>>

\* a round of the read loop, whatever frames its chunk holds, leaves the
\* downstream stream readable and the loop reading
C21_UnknownShapeDroppedOrEmptyFrame ==
  /\ []UnknownShapeDroppedOrEmptyFrame
  /\ [][pos' # pos => pc' = pc /\ ctl' = ctl]_vars

\* chat.js has ended a stream whose first record was a JSON number and whose
\* second carried text
C21_Witness ==
  /\ Ended /\ variant = ChatJs
  /\ Len(LinesSeen) = 2
  /\ PayloadOf(LinesSeen[1]) = J_number
  /\ full # <<>>
  /\ Len(out) = 3

(***************************************************************************)
(* C22: the partial line carried from one read to the next                 *)
(***************************************************************************)
\* all the input decoded so far
DecodedSoFar == Decode(<<>>, Delivered).text

\* where the newlines of a text stand
NewlinesOf(text) == SelectSeq([i \in 1..Len(text) |-> i], LAMBDA i : text[i] = NL)

\* the lines of a text that a newline ends, in the order of arrival
TerminatedLines(text, at) ==
  [k \in 1..Len(at) |-> SubSeq(text, IF k = 1 THEN 1 ELSE at[k - 1] + 1, at[k] - 1)]

\* what follows the last newline of a text
AfterLastNewline(text, at) ==
  IF at = <<>> THEN text ELSE SubSeq(text, at[Len(at)] + 1, Len(text))

\* the relay and the frames of its loop are what the lines give, each handled
\* once and in their order
HandledOnceInOrder(r) ==
  /\ LoopFrames = r.out
  /\ full = r.full
  /\ foundFiles = r.foundFiles
  /\ fileIds = r.fileIds
  /\ nameHints = r.nameHints

\* C22: after each chunk the carried-over buffer holds no newline and is the
\* text that follows the last newline of all input decoded so far (empty
\* when that ends in a newline), and every line ended by a newline that was
\* received so far has been handled exactly once, in the order of arrival.
C22_BufferIsTextAfterLastNewline ==
  LET text == DecodedSoFar
      at == NewlinesOf(text)
  IN /\ \A i \in 1..Len(buffer) : buffer[i] # NL
     /\ buffer = AfterLastNewline(text, at)
     /\ (text # <<>> /\ text[Len(text)] = NL) => buffer = <<>>
     /\ HandledOnceInOrder(OnLines(variant, RelayInit, TerminatedLines(text, at)))

\* a line has been handled, its text was sent, and a later chunk has left the
\* beginning of the next line in the buffer
C22_Witness ==
  /\ pc = "read"
  /\ Len(NewlinesOf(DecodedSoFar)) = 1
  /\ pos > MaxChunk + 1
  /\ out # <<>>
  /\ buffer # <<>>
  /\ buffer # DecodedSoFar

(***************************************************************************)
(* C23: the order of the checks of a POST                                  *)
(***************************************************************************)
\* the checks a handled POST fails, whatever the handler has looked at
BodyUnparsable == request.body.t = "unparsable"
MessageAbsent == MessageMissingOrBlank(request.body)
ServerMisconfigured == ~env.OPENAI_API_KEY \/ ~env.OPENAI_VECTOR_STORE_ID
UpstreamFails == upstream.result = "rejected" \/ upstream.status \notin 200..299

\* the response of one check, nothing having been fetched
RefusedWith(status, text) ==
  /\ response.status = status
  /\ response.kind = "error"
  /\ said = text
  /\ calls = <<"request.json">>
  /\ input = NoInput

\* C23: a POST gets the response of the first check it fails, in the order
\* unparsable body (400), empty message (400), missing credential or
\* collection identifier (500), upstream failure; an empty message on a
\* misconfigured server gets 400, and a failing check keeps every later
\* step from running: the upstream is called only when the three checks of
\* the request have passed.
C23_FirstFailingCheckAnswers ==
  Handled /\ request.method = "POST" =>
    /\ BodyUnparsable => RefusedWith(400, BadJSON)
    /\ ~BodyUnparsable /\ MessageAbsent => RefusedWith(400, MissingMessage)
    /\ ~BodyUnparsable /\ ~MessageAbsent /\ ServerMisconfigured =>
         RefusedWith(500, NotConfigured)
    /\ \E i \in 1..Len(calls) : calls[i] # "request.json" =>
         ~BodyUnparsable /\ ~MessageAbsent /\ ~ServerMisconfigured

\* an empty message on a server without its credential, the upstream down as
\* well, was answered with 400
C23_Witness ==
  /\ Handled /\ request.method = "POST"
  /\ request.body.t = "object" /\ request.body.message.t = "string"
  /\ MessageAbsent /\ ~env.OPENAI_API_KEY /\ UpstreamFails
  /\ response.status = 400
  /\ said = MissingMessage

(***************************************************************************)
(* C24: the piece left in the buffer when the upstream ends                *)
(***************************************************************************)
\* the source list of the final event of a relay that stands at r
EndSources(r) ==
  IF variant = ChatJs THEN MapValues(r.foundFiles) ELSE extractSourcesFromAnswer(r.full)

\* the identifiers the lookups were made for
LookedUp == [i \in 1..Len(lookups) |-> lookups[i].id]

\* the relay has left its loop as the lines ended by a newline, and they
\* alone, leave it: r is the relay after those lines
TailLeftOut(r, tail) ==
  /\ buffer = tail
  /\ HandledOnceInOrder(r)
  /\ Ended /\ variant \in AccumulatingVariants => Done.text = r.full
  /\ Ended /\ variant \in {ChatJs, PromptJs} => Done.sources = EndSources(r)
  /\ variant \in LookupVariants /\ ctl # "errored" => LookedUp \o todo = r.fileIds

\* C24: when the upstream has ended, what the buffer holds after the last
\* newline is dropped: a last record that no newline follows is not
\* parsed, sends no frame, and adds nothing to the final text, to the source
\* list or to the identifiers that are looked up.
C24_UnterminatedTailDiscarded ==
  pc # "read" =>
    TailLeftOut(OnLines(variant, RelayInit,
                        TerminatedLines(DecodedSoFar, NewlinesOf(DecodedSoFar))),
                AfterLastNewline(DecodedSoFar, NewlinesOf(DecodedSoFar)))

\* chat.js has sent its final event while the buffer held a whole record of
\* text whose newline never came; a record before it was handled
C24_Witness ==
  /\ Ended /\ variant = ChatJs
  /\ full # <<>>
  /\ Done.text = full
  /\ PayloadOf(buffer) \in JsonTexts
  /\ OnLine(variant, Relay, buffer).full # full

(***************************************************************************)
(* C25: the end of the downstream stream                                   *)
(***************************************************************************)
\* the relay of an upstream whose reads never reject
NextLive ==
  \/ \E n \in 1..Len(body) : Read(n)
  \/ ReadDone
  \/ PreloadSettles
  \/ \E m \in FileMaps : AwaitPreload(m)
  \/ \E o \in LookupOutcomes \cup {"preloaded"} : Lookup(o)
  \/ EmitFinal

\* a ReadDone step, as the program counter shows it: ReadDone can be taken
\* exactly when pc = "read", and it is the one step that takes pc from there
LoopLeft == pc = "read" /\ pc' \in {"preload", "lookup", "end"}

\* a Lookup step, as the list of identifiers still to resolve shows it: some
\* Lookup(o) can be taken exactly when pc = "lookup" and todo is not empty
IdResolved == pc = "lookup" /\ todo # <<>> /\ todo' = Tail(todo)

\* the upstream is finite, so reader.read() reports done in the end; every
\* fetch of the lookups resolves or rejects; and start(controller), one
\* async function, runs on from each settled await to the next
SpecLive ==
  /\ Init /\ [][NextLive]_vars
  /\ WF_pc(LoopLeft)
  /\ WF_vars(PreloadSettles)
  /\ WF_vars(\E m \in FileMaps : AwaitPreload(m))
  /\ WF_todo(IdResolved)
  /\ WF_vars(EmitFinal)

\* C25: in every streaming variant, when the upstream is finite and no read
\* fails, the downstream stream is closed in the end, after the [DONE]
\* sentinel has been enqueued.
C25_DownstreamEventuallyClosed ==
  <>(ctl = "closed" /\ out # <<>> /\ out[Len(out)] = Sentinel)

(***************************************************************************)
(* C26: a file name once given for an identifier (chat.js)                 *)
(***************************************************************************)
\* C26: in chat.js, once a frame has given a file name for an identifier,
\* the name the final event reports for that identifier is a file name that
\* was given for it and never the bare identifier, also when a later entry
\* names the identifier without a file name.
C26_SuppliedFilenameIsKept ==
  Ended /\ variant = ChatJs =>
    /\ Len(Done.sources) = Len(IdsObserved)
    /\ \A i \in 1..Len(IdsObserved) :
         FilenamesGivenIn(EntriesSeen, IdsObserved[i]) # {} =>
           Done.sources[i] \in FilenamesGivenIn(EntriesSeen, IdsObserved[i])

(***************************************************************************)
(* C27: a data: [DONE] record of the upstream                              *)
(***************************************************************************)
\* the lines received, the data: [DONE] records taken out
WithoutSentinels == SelectSeq(LinesSeen, LAMBDA l : PayloadOf(l) # T_DONE)

\* no final event and no sentinel has been sent
NothingFinalSent == \A i \in 1..Len(out) : out[i].k \notin {"done", "sentinel"}

\* C27: a data: [DONE] record of the upstream does not end the relay: it is
\* passed over as an empty record is, the records after it are parsed,
\* accumulated and forwarded as ever, and the final frames are sent only
\* when the reader reports the end of the upstream, never while the loop
\* runs, and then whether a sentinel was received or not.
C27_SentinelRecordIsSkipped ==
  /\ HandledOnceInOrder(OnLines(variant, RelayInit, WithoutSentinels))
  /\ pc \in {"read", "preload", "lookup"} => NothingFinalSent
  /\ Ended =>
       /\ out # <<>> /\ out[Len(out)] = Sentinel
       /\ Len(FramesOfKind("sentinel")) = 1
       /\ variant \in AccumulatingVariants => EndsWithDone /\ Done.text = full

\* chat.js went on after a data: [DONE] record: the record after it gave the
\* text of the final event
C27_Witness ==
  /\ Ended /\ variant = ChatJs
  /\ Len(LinesSeen) = 2
  /\ PayloadOf(LinesSeen[1]) = T_DONE
  /\ full # <<>>
  /\ Done.text = full
  /\ Len(out) = 3

====
